---- MODULE Spec2Model ----
(***************************************************************************)
(* cc3200tool (src/cc3200tool/cc.py): the serial framing layer of          *)
(* CC3200Connection, the session that main() drives over it, the raw       *)
(* storage layer and the reading of the FAT.                               *)
(*                                                                         *)
(* Four specifications share the variables:                                *)
(*   SpecLink  the framing layer, byte by byte: every call of _send_packet,*)
(*             _read_packet, _try_breaking and _get_last_status is one     *)
(*             action whose inputs are the arguments and the bytes the     *)
(*             device sends before it falls silent (a read past the end of *)
(*             that stream is a read that times out);                      *)
(*   Spec      main(): one step per wire operation, the outcome of each    *)
(*             exchange chosen by the device;                              *)
(*   SpecStore the raw reads, writes and erases of the storage commands,   *)
(*             one step per packet or file access, with the content of the *)
(*             flash and of the image files;                               *)
(*   SpecFat   get_fat_info: the choice between the two FAT copies and the *)
(*             parsing of the chosen one.                                  *)
(* Times are in milliseconds.                                              *)
(***************************************************************************)
EXTENDS Integers, Sequences, FiniteSets, TLC

VARIABLES
    port_timeout,   \* self.port.timeout
    l_op,           \* SpecLink: the call last made
    l_payload,      \* its payload argument (the framed payload for a read)
    l_targ,         \* its timeout argument
    l_rx,           \* the bytes the device sent during the call
    l_tx,           \* the bytes the call wrote to the port
    l_ok,           \* TRUE when the call returned, FALSE when it raised
    l_data,         \* the packet body it returned
    l_n,            \* BREAKs sent (_try_breaking) / status value (_get_last_status)
    l_tries,        \* the tries argument of _try_breaking
    l_args,         \* <<file_len, fs_flags>> of _open_file_for_write
    l_t0,           \* port_timeout when the call was made
    pc,             \* Spec: where main() is
    status,         \* "running", "done", "exit-1", "exit-2", "exit-3", or
                    \* "raised" (an exception no one catches ends the process)
    image_file,     \* args.image_file is not None
    output_file,    \* args.output_file is not None
    reboot_to_app,  \* args.reboot_to_app
    cmds,           \* commands: the parsed subcommand groups
    dll_len,        \* len(dll_data('rbtl3100s.dll'))
    ci,             \* how many of the commands have been started
    wire,           \* the operations on the port so far, in order
    vinfo,          \* cc.vinfo
    sw_vinfo,       \* vinfo, the local of switch_to_nwp_bootloader
    vinfo_apps,     \* cc.vinfo_apps
    pos,            \* sent (_raw_write) / pos (_write_file_api)
    check_fat,      \* check_fat
    s_port,         \* SpecStore: self.port is not None
    s_hasout,       \* self._output_file is not None
    s_flash,        \* the content of the device's serial flash
    s_in,           \* the content of the file behind self._image_file
    s_out,          \* the content of the file behind self._output_file
    s_cmds,         \* the storage commands of the run, in order
    s_ci,           \* how many of them have been started
    s_todo,         \* the calls the current command has still to make
    s_step,         \* where the first of them is: [phase, sent, rx, size]
    s_hist,         \* calls, packets and file writes so far, in order
    s_status,       \* "running", "done" or "raised"
    f_pc,           \* SpecFat: where get_fat_info is
    f_in,           \* its arguments and what it has read from the serial flash
    f_out,          \* what it has worked out
    a_pc,           \* SpecArgv: where split_argv is
    cmdline_args,   \* its argument
    a_groups        \* the lists it has yielded, in order

linkVars == <<l_op, l_payload, l_targ, l_rx, l_tx, l_ok, l_data, l_n, l_tries, l_args, l_t0>>
argVars == <<image_file, output_file, reboot_to_app, cmds, dll_len>>
storeVars == <<s_port, s_hasout, s_flash, s_in, s_out, s_cmds, s_ci, s_todo, s_step, s_hist, s_status>>
mainVars == <<pc, status, argVars, ci, wire, vinfo, sw_vinfo, vinfo_apps, pos, check_fat>>
fatVars == <<f_pc, f_in, f_out>>
splitVars == <<a_pc, cmdline_args, a_groups>>
sessVars == <<mainVars, storeVars, fatVars, splitVars>>
vars == <<port_timeout, linkVars, sessVars>>

(***************************************************************************)
(* Bounds                                                                  *)
(***************************************************************************)
MaxLen == 3        \* longest enumerated payload
MaxAckLen == 3     \* longest enumerated reply to a packet or a BREAK
MaxCmds == 2       \* most subcommands on one command line

(***************************************************************************)
(* Program constants                                                       *)
(***************************************************************************)
TIMEOUT == 5000                  \* CC3200Connection.TIMEOUT = 5 (s)
BREAK_TRIES == 5                 \* _try_breaking(tries=5, ...)
BREAK_TIMEOUT == 2000            \* _try_breaking(..., timeout=2)
STATUS_OK == 64                  \* CC3x00Status.is_ok: value == 0x40
OPCODE_GET_LAST_STATUS == 35     \* b'\x23'
None == -1                       \* timeout=None

ACK == <<0, 204>>                \* b'\x00\xCC'

(***************************************************************************)
(* Inputs                                                                  *)
(***************************************************************************)
PayloadBytes == {0, 1, 255}
SeqsUpTo(S, n) == UNION {[1..k -> S] : k \in 0..n}
LongPayloads == {[i \in 1..n |-> 1] : n \in {254, 300}}
Payloads == SeqsUpTo(PayloadBytes, MaxLen) \cup LongPayloads
AckStreams == SeqsUpTo({0, 1, 204}, MaxAckLen)
BreakReplies == {<<>>, ACK, <<204, 0>>}
MutBytes == 0..(MaxLen + 2) \cup {255}
TimeoutArgs == {None, TIMEOUT, 2 * TIMEOUT}
StatusReplies == [1..4 -> {0, STATUS_OK}] \cup {<<STATUS_OK>>, <<0>>, <<>>}

(***************************************************************************)
(* _serial_timeout: the context manager, as what it does on entry and on   *)
(* exit.  It has no try/finally: when the body raises, the generator is    *)
(* resumed with the exception at its yield and the restoring assignment is *)
(* never run.                                                              *)
(***************************************************************************)
SerialTimeoutEnter(cur, timeout) ==
    IF timeout = None THEN cur
    ELSE IF timeout = cur THEN cur
    ELSE timeout

SerialTimeoutExit(orig, timeout, raised, now) ==
    IF timeout = None THEN now
    ELSE IF timeout = orig THEN now
    ELSE IF raised THEN now
    ELSE orig

(***************************************************************************)
(* Framing                                                                 *)
(***************************************************************************)
\* sum(data), summed by halves
RECURSIVE SumRange(_, _, _)
SumRange(s, lo, hi) ==
    IF lo > hi THEN 0
    ELSE IF lo = hi THEN s[lo]
    ELSE LET mid == (lo + hi) \div 2
         IN  SumRange(s, lo, mid) + SumRange(s, mid + 1, hi)

Sum(s) == SumRange(s, 1, Len(s))

\* struct.pack(">H", n)
PackH(n) == <<n \div 256, n % 256>>

\* struct.unpack("<H", b)[0]
UnpackHLittleEndian(b) == b[2] * 256 + b[1]

\* struct.unpack(">H", b)[0]
UnpackH(b) == b[1] * 256 + b[2]

\* port.read(n): at most n of the bytes the device still sends
PortRead(s, n) == IF n <= 0 THEN <<>> ELSE SubSeq(s, 1, IF n < Len(s) THEN n ELSE Len(s))
PortRest(s, n) == IF n <= 0 THEN s ELSE SubSeq(s, (IF n < Len(s) THEN n ELSE Len(s)) + 1, Len(s))

\* Frame with the checksum not reduced to one byte
FrameWideCsum(data) == PackH(Len(data) + 2) \o <<Sum(data)>> \o data

\* _send_packet: the bytes written for a payload
Frame(data) == PackH(Len(data) + 2) \o <<Sum(data) % 256>> \o data

\* _read_ack: read byte by byte, keeping the last two, until they are 00 CC
\* or a read returns nothing
RECURSIVE ReadAckFrom(_, _)
ReadAckFrom(ack_bytes, s) ==
    IF s = <<>> THEN [ok |-> FALSE, rest |-> <<>>]
    ELSE LET a1 == Append(ack_bytes, Head(s))
             a2 == IF Len(a1) > 2 THEN Tail(a1) ELSE a1
         IN  IF a2 = ACK THEN [ok |-> TRUE, rest |-> Tail(s)]
             ELSE ReadAckFrom(a2, Tail(s))

ReadAck(s) == ReadAckFrom(<<>>, s)

\* _send_packet(data, timeout) against the reply stream s
SendPacket(data, s) ==
    IF Len(data) = 0
    THEN [ok |-> FALSE, tx |-> <<>>, rest |-> s]                 \* assert len(data)
    ELSE LET a == ReadAck(s)
         IN  [ok |-> a.ok, tx |-> Frame(data), rest |-> a.rest]

\* _read_packet acknowledging before it verifies the checksum
ReadPacketAckFirst(s) ==
    LET header == PortRead(s, 3)
        data_len == UnpackH(header) - 2
        data == PortRead(PortRest(s, 3), data_len)
    IN  IF Len(header) # 3
        THEN [ok |-> FALSE, data |-> <<>>, tx |-> <<>>, inwith |-> TRUE, rest |-> <<>>]
        ELSE IF Len(data) # data_len
        THEN [ok |-> FALSE, data |-> <<>>, tx |-> <<>>, inwith |-> FALSE, rest |-> <<>>]
        ELSE [ok |-> Sum(data) % 256 = header[3], data |-> <<>>, tx |-> ACK,
              inwith |-> FALSE, rest |-> <<>>]

\* _read_packet without the checksum comparison
ReadPacketNoCsum(s) ==
    LET header == PortRead(s, 3)
        data_len == UnpackH(header) - 2
        data == PortRead(PortRest(s, 3), data_len)
    IN  IF Len(header) # 3
        THEN [ok |-> FALSE, data |-> <<>>, tx |-> <<>>, inwith |-> TRUE, rest |-> <<>>]
        ELSE IF Len(data) # data_len
        THEN [ok |-> FALSE, data |-> <<>>, tx |-> <<>>, inwith |-> FALSE, rest |-> <<>>]
        ELSE [ok |-> TRUE, data |-> data, tx |-> ACK, inwith |-> FALSE,
              rest |-> PortRest(PortRest(s, 3), data_len)]

\* _read_packet against the stream s.  inwith: the exception was raised
\* inside the first "with self._serial_timeout(timeout)" block.
ReadPacket(s) ==
    LET header == PortRead(s, 3)
        fail(w) == [ok |-> FALSE, data |-> <<>>, tx |-> <<>>, inwith |-> w, rest |-> <<>>]
    IN  IF Len(header) # 3 THEN fail(TRUE)
        ELSE LET csum_byte == header[3]
                 data_len == UnpackH(header) - 2
                 body == PortRest(s, 3)
                 data == PortRead(body, data_len)
             IN  IF Len(data) # data_len THEN fail(FALSE)
                 ELSE IF Sum(data) % 256 # csum_byte THEN fail(FALSE)
                 ELSE [ok |-> TRUE, data |-> data, tx |-> ACK, inwith |-> FALSE,
                       rest |-> PortRest(body, data_len)]

\* port_timeout after _read_packet(timeout)
ReadPacketTimeout(cur, timeout, r) ==
    SerialTimeoutExit(cur, timeout, r.inwith, SerialTimeoutEnter(cur, timeout))

\* port_timeout after _read_ack(timeout): both returns are inside the with
\* block, which is then left normally
ReadAckTimeout(cur, timeout) ==
    SerialTimeoutExit(cur, timeout, FALSE, SerialTimeoutEnter(cur, timeout))

\* _try_breaking(tries, timeout): replies[i] is what the device sends after
\* the i-th BREAK
RECURSIVE TryBreakingFrom(_, _, _)
TryBreakingFrom(i, tries, replies) ==
    IF i > tries THEN [ok |-> FALSE, breaks |-> tries]
    ELSE IF ReadAck(replies[i]).ok THEN [ok |-> TRUE, breaks |-> i]
    ELSE TryBreakingFrom(i + 1, tries, replies)

\* _try_breaking without the break out of the loop
TryBreakingNoStop(tries, replies) ==
    [ok |-> \E i \in 1..tries : ReadAck(replies[i]).ok, breaks |-> tries]

TryBreaking(tries, replies) == TryBreakingFrom(1, tries, replies)

\* _get_last_status against the stream s: the status is the first byte of
\* the packet body
GetLastStatus(s) ==
    LET snd == SendPacket(<<OPCODE_GET_LAST_STATUS>>, s)
        rcv == ReadPacket(snd.rest)
    IN  IF ~snd.ok THEN [ok |-> FALSE, tx |-> snd.tx, data |-> <<>>, value |-> -1, inwith |-> FALSE]
        ELSE IF ~rcv.ok THEN [ok |-> FALSE, tx |-> snd.tx, data |-> <<>>, value |-> -1, inwith |-> rcv.inwith]
        ELSE IF Len(rcv.data) = 0                                 \* status[0]: IndexError
             THEN [ok |-> FALSE, tx |-> snd.tx \o rcv.tx, data |-> rcv.data, value |-> -1, inwith |-> FALSE]
        ELSE [ok |-> TRUE, tx |-> snd.tx \o rcv.tx, data |-> rcv.data, value |-> rcv.data[1], inwith |-> FALSE]

\* CC3x00Status.is_ok
IsOk(value) == value = STATUS_OK

(***************************************************************************)
(* Opening a file on the device                                            *)
(***************************************************************************)
OPCODE_START_UPLOAD == 33
SLFS_MODE_OPEN_WRITE_CREATE_IF_NOT_EXIST == 3
FLASH_BLOCK_SIZES == <<256, 1024, 4096, 16384, 65536>>
NoFlags == -1                    \* fs_flags = None
TOKEN_LEN == 4                   \* _open_file: token = self.port.read(4)

Min(a, b) == IF a < b THEN a ELSE b
Max(a, b) == IF a > b THEN a ELSE b
CeilDiv(a, b) == (a + b - 1) \div b

\* struct.pack(">I", n)
PackI(n) == <<(n \div 16777216) % 256, (n \div 65536) % 256, (n \div 256) % 256, n % 256>>

\* _open_file_for_write: the first block size class that holds file_len
\* (0 when none does), the block count and the flags word
RECURSIVE BsizeIdxFrom(_, _)
BsizeIdxFrom(i, file_len) ==
    IF i > Len(FLASH_BLOCK_SIZES) THEN 0
    ELSE IF FLASH_BLOCK_SIZES[i] * 255 >= file_len THEN i
    ELSE BsizeIdxFrom(i + 1, file_len)

BsizeIdx(file_len) == BsizeIdxFrom(1, file_len)


\* _open_file_for_write with the block count of the next larger class
OpenFlagsLargestFit(file_len, fs_flags) ==
    LET i == BsizeIdx(file_len)
        j == IF i < Len(FLASH_BLOCK_SIZES) THEN i + 1 ELSE i
    IN  ((SLFS_MODE_OPEN_WRITE_CREATE_IF_NOT_EXIST % 16) * 4096)
        + (((j - 1) % 16) * 256)
        + (CeilDiv(file_len, FLASH_BLOCK_SIZES[j]) % 256)
        + (IF fs_flags = NoFlags THEN 0 ELSE (fs_flags % 256) * 65536)

\* _open_file_for_write: the flags word of START_UPLOAD
OpenFlags(file_len, fs_flags) ==
    LET i == BsizeIdx(file_len)
        blocks == CeilDiv(file_len, FLASH_BLOCK_SIZES[i])
    IN  ((SLFS_MODE_OPEN_WRITE_CREATE_IF_NOT_EXIST % 16) * 4096)
        + (((i - 1) % 16) * 256)
        + (blocks % 256)
        + (IF fs_flags = NoFlags THEN 0 ELSE (fs_flags % 256) * 65536)

\* _open_file(filename, slfs_flags) with filename.encode() = name, against
\* the stream s: the command is framed and sent, then the token is read
OpenFile(name, slfs_flags, s) ==
    LET command == <<OPCODE_START_UPLOAD>> \o PackI(slfs_flags) \o PackI(0) \o name \o <<0, 0>>
        snd == SendPacket(command, s)
        token == PortRead(snd.rest, TOKEN_LEN)
    IN  [ok |-> snd.ok /\ Len(token) = TOKEN_LEN, tx |-> snd.tx]

\* _open_file_for_write(filename, file_len, fs_flags) against the stream s
OpenFileForWrite(name, file_len, fs_flags, s) ==
    IF BsizeIdx(file_len) = 0 THEN [ok |-> FALSE, tx |-> <<>>]
    ELSE OpenFile(name, OpenFlags(file_len, fs_flags), s)

(***************************************************************************)
(* SpecLink: calls of the framing layer                                    *)
(***************************************************************************)
\* No call of the framing layer is on record.
LinkIdle ==
    /\ l_op = "none"
    /\ l_payload = <<>>
    /\ l_targ = None
    /\ l_rx = <<>>
    /\ l_tx = <<>>
    /\ l_ok = TRUE
    /\ l_data = <<>>
    /\ l_n = 0
    /\ l_tries = 0
    /\ l_args = <<>>
    /\ l_t0 = TIMEOUT

\* No call of the storage layer is in progress.
NoStep == [phase |-> "none", sent |-> 0, rx |-> <<>>, size |-> 0]

\* No storage command is running.
StoreIdle ==
    /\ s_port = TRUE
    /\ s_hasout = FALSE
    /\ s_flash = <<>>
    /\ s_in = <<>>
    /\ s_out = <<>>
    /\ s_cmds = <<>>
    /\ s_ci = 0
    /\ s_todo = <<>>
    /\ s_step = NoStep
    /\ s_hist = <<>>
    /\ s_status = "idle"

\* CC3x00VersionInfo not read yet (None)
NoVinfo == [bootloader |-> <<>>, nwp |-> <<>>, mac |-> <<>>, phy |-> <<>>, chip_type |-> <<>>]

\* main() is not running.
MainIdle ==
    /\ pc = "idle"
    /\ status = "running"
    /\ image_file = FALSE
    /\ output_file = FALSE
    /\ reboot_to_app = FALSE
    /\ cmds = <<>>
    /\ dll_len = 0
    /\ ci = 0
    /\ wire = <<>>
    /\ vinfo = NoVinfo
    /\ sw_vinfo = NoVinfo
    /\ vinfo_apps = NoVinfo
    /\ pos = 0
    /\ check_fat = FALSE

\* get_fat_info is not running.
FatIdle ==
    /\ f_pc = "idle"
    /\ f_in = <<>>
    /\ f_out = <<>>

\* split_argv is not running.
SplitIdle ==
    /\ a_pc = "idle"
    /\ cmdline_args = <<>>
    /\ a_groups = <<>>

SessIdle == MainIdle /\ StoreIdle /\ FatIdle /\ SplitIdle

LInit ==
    /\ port_timeout = TIMEOUT
    /\ l_op = "none"
    /\ l_payload = <<>>
    /\ l_targ = None
    /\ l_rx = <<>>
    /\ l_tx = <<>>
    /\ l_ok = TRUE
    /\ l_data = <<>>
    /\ l_n = 0
    /\ l_tries = 0
    /\ l_args = <<>>
    /\ l_t0 = TIMEOUT
    /\ SessIdle

L_SendPacket ==
    /\ l_op = "none"
    /\ UNCHANGED sessVars
    /\ \E data \in Payloads, t \in TimeoutArgs, s \in AckStreams :
        LET r == SendPacket(data, s)
        IN  /\ l_op' = "send_packet"
            /\ l_payload' = data
            /\ l_targ' = t
            /\ l_rx' = s
            /\ l_tx' = r.tx
            /\ l_ok' = r.ok
            /\ l_data' = <<>>
            /\ l_n' = 0
            /\ l_tries' = 0
            /\ l_args' = <<>>
            /\ l_t0' = port_timeout
            /\ port_timeout' = IF Len(data) = 0 THEN port_timeout
                               ELSE ReadAckTimeout(port_timeout, t)

\* The device sends the frame of a payload, with byte i changed to b when
\* 1 <= i <= Len(frame), cut after k bytes.
L_ReadPacket ==
    /\ l_op = "none"
    /\ UNCHANGED sessVars
    /\ \E data \in Payloads \ LongPayloads, i \in 0..(MaxLen + 3), b \in MutBytes,
       k \in 0..(MaxLen + 3), t \in TimeoutArgs :
        LET f == Frame(data)
            m == IF i >= 1 /\ i <= Len(f) THEN [f EXCEPT ![i] = b] ELSE f
            s == PortRead(m, k)
            r == ReadPacket(s)
        IN  /\ l_op' = "read_packet"
            /\ l_payload' = data
            /\ l_targ' = t
            /\ l_rx' = s
            /\ l_tx' = r.tx
            /\ l_ok' = r.ok
            /\ l_data' = r.data
            /\ l_n' = 0
            /\ l_tries' = 0
            /\ l_args' = <<>>
            /\ l_t0' = port_timeout
            /\ port_timeout' = ReadPacketTimeout(port_timeout, t, r)

\* _send_packet(data) on one end of the line and _read_packet on the other:
\* the reader is fed what the sender wrote, the sender what the reader wrote
L_RoundTrip ==
    /\ l_op = "none"
    /\ UNCHANGED sessVars
    /\ \E data \in Payloads, t \in TimeoutArgs :
        LET r == ReadPacket(SendPacket(data, <<>>).tx)
            w == SendPacket(data, r.tx)
        IN  /\ l_op' = "round_trip"
            /\ l_payload' = data
            /\ l_targ' = t
            /\ l_rx' = r.tx
            /\ l_tx' = w.tx
            /\ l_ok' = (w.ok /\ r.ok)
            /\ l_data' = r.data
            /\ l_n' = 0
            /\ l_tries' = 0
            /\ l_args' = <<>>
            /\ l_t0' = port_timeout
            /\ port_timeout' = IF Len(data) = 0 THEN port_timeout
                               ELSE ReadAckTimeout(port_timeout, t)

L_TryBreaking ==
    /\ l_op = "none"
    /\ UNCHANGED sessVars
    /\ \E tries \in 1..BREAK_TRIES, t \in TimeoutArgs :
      \E replies \in [1..tries -> BreakReplies] :
        LET r == TryBreaking(tries, replies)
        IN  /\ l_op' = "try_breaking"
            /\ l_payload' = <<>>
            /\ l_targ' = t
            /\ l_rx' = replies
            /\ l_tx' = <<>>
            /\ l_ok' = r.ok
            /\ l_data' = <<>>
            /\ l_n' = r.breaks
            /\ l_tries' = tries
            /\ l_args' = <<>>
            /\ l_t0' = port_timeout
            /\ port_timeout' = ReadAckTimeout(port_timeout, t)

L_GetLastStatus ==
    /\ l_op = "none"
    /\ UNCHANGED sessVars
    /\ \E reply \in StatusReplies, a \in {<<>>, ACK}, k \in 0..7 :
        LET s == a \o PortRead(Frame(reply), k)
            r == GetLastStatus(s)
        IN  /\ l_op' = "get_last_status"
            /\ l_payload' = <<OPCODE_GET_LAST_STATUS>>
            /\ l_targ' = None
            /\ l_rx' = s
            /\ l_tx' = r.tx
            /\ l_ok' = r.ok
            /\ l_data' = r.data
            /\ l_n' = r.value
            /\ l_tries' = 0
            /\ l_args' = <<>>
            /\ l_t0' = port_timeout
            /\ port_timeout' = port_timeout

\* The sizes around each class limit, and the file flags write_file passes
OpenLens ==
    {1, 2, 255, 256, 257} \cup
    UNION {{FLASH_BLOCK_SIZES[i] - 1, FLASH_BLOCK_SIZES[i], FLASH_BLOCK_SIZES[i] + 1,
            FLASH_BLOCK_SIZES[i] * 254 + 1, FLASH_BLOCK_SIZES[i] * 255 - 1,
            FLASH_BLOCK_SIZES[i] * 255, FLASH_BLOCK_SIZES[i] * 255 + 1}
           : i \in 1..Len(FLASH_BLOCK_SIZES)}

OpenFsFlags == {NoFlags, 1, 35}

OpenStreams == {<<>>, ACK, ACK \o <<0, 0, 0>>, ACK \o <<0, 0, 0, 0>>}

FileName == <<47, 102>>          \* "/f"

L_OpenFileForWrite ==
    /\ l_op = "none"
    /\ UNCHANGED sessVars
    /\ \E file_len \in OpenLens, fs_flags \in OpenFsFlags, s \in OpenStreams :
        LET r == OpenFileForWrite(FileName, file_len, fs_flags, s)
        IN  /\ l_op' = "open_file_for_write"
            /\ l_payload' = FileName
            /\ l_targ' = None
            /\ l_rx' = s
            /\ l_tx' = r.tx
            /\ l_ok' = r.ok
            /\ l_data' = <<>>
            /\ l_n' = 0
            /\ l_tries' = 0
            /\ l_args' = <<file_len, fs_flags>>
            /\ l_t0' = port_timeout
            /\ port_timeout' = port_timeout

\* The caller goes on to its next call; the port keeps its timeout.
L_Return ==
    /\ l_op # "none"
    /\ l_op' = "none"
    /\ l_payload' = <<>>
    /\ l_targ' = None
    /\ l_rx' = <<>>
    /\ l_tx' = <<>>
    /\ l_ok' = TRUE
    /\ l_data' = <<>>
    /\ l_n' = 0
    /\ l_tries' = 0
    /\ l_args' = <<>>
    /\ l_t0' = port_timeout
    /\ UNCHANGED <<port_timeout, sessVars>>

LNext ==
    \/ L_Return
    \/ L_SendPacket
    \/ L_ReadPacket
    \/ L_RoundTrip
    \/ L_TryBreaking
    \/ L_GetLastStatus
    \/ L_OpenFileForWrite


SpecLink == LInit /\ [][LNext]_vars

(***************************************************************************)
(* Spec: main().  Each step is one operation on the port together with the *)
(* device's answer to it; the operation is appended to `wire` with its     *)
(* outcome.  An exception raised where main() has no handler ends the      *)
(* process (status "raised").                                              *)
(***************************************************************************)
SWITCH_CLOCK == 26666667         \* struct.pack(">I", 26666667)
RAW_WRITE_CHUNK == 4080          \* _raw_write: chunk_size = 4080
STORAGE_ID_SRAM == 0
SRAM_BIT == 128                  \* CC3x00StorageList.SRAM_BIT = 0x80
STORAGE_LIST_TIMEOUT == 500      \* _get_storage_list: _serial_timeout(.5)
VERSION_LEN == 28                \* _get_version: len(version_data) != 28

\* value & bit != 0, for a one-bit mask
HasBit(value, bit) == (value \div bit) % 2 = 1


\* An operation on the port: its name, up to three arguments, whether it
\* succeeded, and the number of the command that issued it (0: bring-up,
\* Len(cmds) + 1: what main() does after the last command).
Ev(op, a, b, c, ok) == [op |-> op, a |-> a, b |-> b, c |-> c, ok |-> ok, k |-> ci]

EvAfter(op, a, b, c, ok) == [Ev(op, a, b, c, ok) EXCEPT !.k = Len(cmds) + 1]

\* _read_packet raised (timeout, short body, checksum)
NoReply == <<-1>>

\* A GET_VERSION_INFO response with bootloader[1] = bl1 and chip_type[0] = chip0
VersionPacket(bl1, chip0) ==
    [i \in 1..VERSION_LEN |-> IF i = 2 THEN bl1 ELSE IF i = 17 THEN chip0 ELSE 0]

VersionReplies ==
    {VersionPacket(3, 16), VersionPacket(4, 16), VersionPacket(4, 0),
     SubSeq(VersionPacket(4, 16), 1, VERSION_LEN - 1), NoReply}

\* CC3x00VersionInfo.from_packet
FromPacket(data) ==
    [bootloader |-> SubSeq(data, 1, 4),
     nwp        |-> SubSeq(data, 5, 8),
     mac        |-> SubSeq(data, 9, 12),
     phy        |-> SubSeq(data, 13, 16),
     chip_type  |-> SubSeq(data, 17, 20)]

\* CC3x00VersionInfo.is_cc3200: (chip_type[0] & 0x10) != 0
IsCC3200(v) == HasBit(v.chip_type[1], 16)

\* _get_version, given whether the request was acknowledged and the reply
GetVersion(acked, reply) ==
    IF ~acked \/ reply = NoReply \/ Len(reply) # VERSION_LEN
    THEN [ok |-> FALSE, v |-> NoVinfo]
    ELSE [ok |-> TRUE, v |-> FromPacket(reply)]

\* main(): what follows a successful connect()
AfterConnectNoSwitch(v) == "cmd"

AfterConnect(v) == IF IsCC3200(v) THEN "switch" ELSE "cmd"

\* switch_to_nwp_bootloader: the tests on the version it has just read
SwitchDecisionNo3(v) ==
    IF ~IsCC3200(v) THEN "return"
    ELSE IF v.bootloader[2] < 3 THEN "raise"
    ELSE "go"

SwitchDecision(v) ==
    IF ~IsCC3200(v) THEN "return"
    ELSE IF v.bootloader[2] < 3 THEN "raise"
    ELSE IF v.bootloader[2] = 3 THEN "raise"
    ELSE "go"

\* switch_to_nwp_bootloader with EXEC_FROM_RAM issued before the upload
SwitchOrderExecFirst ==
    <<"switch", "sw_apps", "sw_break", "sw_version2", "sw_exec", "sw_slist",
      "sw_write", "sw_ack", "cmd">>

\* switch_to_nwp_bootloader and switch_uart_to_apps: the order of their steps
SwitchOrder ==
    <<"switch", "sw_apps", "sw_break", "sw_version2", "sw_slist", "sw_write",
      "sw_exec", "sw_ack", "cmd">>

SwNext(p) ==
    LET i == CHOOSE j \in 1..Len(SwitchOrder) : SwitchOrder[j] = p
    IN  SwitchOrder[i + 1]

\* _raw_write: len(data[sent:sent + chunk_size])
RawWriteChunk(sent, len) == Min(RAW_WRITE_CHUNK, len - sent)

\* an error that main() notes and then carries on with the next subcommand
EndCarriesOn(st) ==
    /\ status' = st
    /\ pc' = "cmd"

\* The process ends: sys.exit(code), or an exception no one catches.
End(st) ==
    /\ status' = st
    /\ pc' = "end"

(* main(): no command, the image-file branch, or opening the port *)
Main_Start ==
    /\ pc = "main"
    /\ UNCHANGED <<linkVars, storeVars, fatVars, splitVars, argVars, ci, wire, vinfo, sw_vinfo, vinfo_apps, pos, check_fat>>
    /\ IF Len(cmds) = 0
       THEN End("exit-1") /\ UNCHANGED port_timeout
       ELSE IF image_file
       THEN pc' = "cmd" /\ UNCHANGED <<status, port_timeout>>
       ELSE \E opened \in BOOLEAN :
               IF opened
               THEN pc' = "connect" /\ port_timeout' = TIMEOUT /\ UNCHANGED status
               ELSE End("exit-2") /\ UNCHANGED port_timeout

(* connect(): flushInput and _do_reset(True) *)
Connect_Reset ==
    /\ pc = "connect"
    /\ wire' = wire \o <<Ev("FLUSH_INPUT", 0, 0, 0, TRUE), Ev("RESET", 1, 0, 0, TRUE)>>
    /\ pc' = "connect_break"
    /\ UNCHANGED <<port_timeout, linkVars, storeVars, fatVars, splitVars, status, argVars, ci, vinfo, sw_vinfo,
                   vinfo_apps, pos, check_fat>>

(* _try_breaking(tries=5, timeout=2) at p; a failure ends main with `st` *)
Break(p, q, st) ==
    /\ pc = p
    /\ \E replies \in [1..BREAK_TRIES -> BreakReplies] :
        LET r == TryBreaking(BREAK_TRIES, replies)
        IN  /\ wire' = Append(wire, Ev("BREAK_IN", 0, 0, 0, r.ok))
            /\ port_timeout' = ReadAckTimeout(port_timeout, BREAK_TIMEOUT)
            /\ IF r.ok THEN pc' = q /\ UNCHANGED status ELSE End(st)
    /\ UNCHANGED <<linkVars, storeVars, fatVars, splitVars, argVars, ci, vinfo, sw_vinfo, vinfo_apps, pos, check_fat>>

Connect_Break == Break("connect_break", "connect_version", "exit-3")

(* connect(): self.vinfo = self._get_version(); main() then switches or not *)
Connect_Version ==
    /\ pc = "connect_version"
    /\ \E acked \in BOOLEAN, reply \in VersionReplies :
        LET g == GetVersion(acked, reply)
        IN  /\ wire' = Append(wire, Ev("GET_VERSION_INFO", 0, 0, 0, g.ok))
            /\ IF g.ok
               THEN /\ vinfo' = g.v
                    /\ pc' = AfterConnect(g.v)
                    /\ UNCHANGED status
               ELSE /\ End("exit-3")
                    /\ UNCHANGED vinfo
    /\ UNCHANGED <<port_timeout, linkVars, storeVars, fatVars, splitVars, argVars, ci, sw_vinfo, vinfo_apps, pos, check_fat>>

(* switch_to_nwp_bootloader: vinfo = self._get_version() and the tests on it *)
Sw_Version ==
    /\ pc = "switch"
    /\ \E acked \in BOOLEAN, reply \in VersionReplies :
        LET g == GetVersion(acked, reply)
            d == SwitchDecision(g.v)
        IN  /\ wire' = Append(wire, Ev("GET_VERSION_INFO", 0, 0, 0, g.ok))
            /\ IF ~g.ok
               THEN End("raised") /\ UNCHANGED sw_vinfo
               ELSE /\ sw_vinfo' = g.v
                    /\ IF d = "return" THEN pc' = "cmd" /\ UNCHANGED status
                       ELSE IF d = "raise" THEN End("unsupported")
                       ELSE pc' = SwNext("switch") /\ UNCHANGED status
    /\ UNCHANGED <<port_timeout, linkVars, storeVars, fatVars, splitVars, argVars, ci, vinfo, vinfo_apps, pos, check_fat>>

(* switch_uart_to_apps: SWITCH_2_APPS *)
Sw_Apps ==
    /\ pc = "sw_apps"
    /\ \E acked \in BOOLEAN :
        /\ wire' = Append(wire, Ev("SWITCH_2_APPS", SWITCH_CLOCK, 0, 0, acked))
        /\ IF acked THEN pc' = SwNext("sw_apps") /\ UNCHANGED status ELSE End("raised")
    /\ UNCHANGED <<port_timeout, linkVars, storeVars, fatVars, splitVars, argVars, ci, vinfo, sw_vinfo, vinfo_apps,
                   pos, check_fat>>

(* switch_uart_to_apps: self._try_breaking() *)
Sw_Break == Break("sw_break", SwNext("sw_break"), "raised")

(* switch_uart_to_apps: self.vinfo_apps = self._get_version(), and the      *)
(* tests switch_to_nwp_bootloader makes when it returns                     *)
Sw_Version2 ==
    /\ pc = "sw_version2"
    /\ \E acked \in BOOLEAN, reply \in VersionReplies :
        LET g == GetVersion(acked, reply)
        IN  /\ wire' = Append(wire, Ev("GET_VERSION_INFO", 0, 0, 0, g.ok))
            /\ IF g.ok
               THEN /\ vinfo_apps' = g.v
                    /\ IF sw_vinfo.bootloader[2] = 3 THEN End("unsupported")
                       ELSE IF sw_vinfo.bootloader[2] >= 4
                       THEN pc' = SwNext("sw_version2") /\ UNCHANGED status
                       ELSE pc' = "sw_ack" /\ UNCHANGED status
               ELSE End("raised") /\ UNCHANGED vinfo_apps
    /\ UNCHANGED <<port_timeout, linkVars, storeVars, fatVars, splitVars, argVars, ci, vinfo, sw_vinfo, pos, check_fat>>

(* _raw_write(0, dll): _get_storage_list and the test for the SRAM bit *)
Sw_StorageList ==
    /\ pc = "sw_slist"
    /\ \E acked \in BOOLEAN, slist \in {<<>>, <<132>>, <<4>>} :
        LET got == acked /\ Len(slist) = 1
            value == IF got THEN slist[1] ELSE 0
            t1 == SerialTimeoutEnter(port_timeout, STORAGE_LIST_TIMEOUT)
        IN  /\ wire' = Append(wire, Ev("GET_STORAGE_LIST", value, 0, 0, got))
            /\ port_timeout' =
                 IF ~acked THEN port_timeout
                 ELSE SerialTimeoutExit(port_timeout, STORAGE_LIST_TIMEOUT, ~got, t1)
            /\ IF got /\ HasBit(value, SRAM_BIT)
               THEN /\ pc' = IF dll_len > 0 THEN SwNext("sw_slist")
                             ELSE SwNext(SwNext("sw_slist"))
                    /\ UNCHANGED status
               ELSE End("raised")
    /\ pos' = 0
    /\ UNCHANGED <<linkVars, storeVars, fatVars, splitVars, argVars, ci, vinfo, sw_vinfo, vinfo_apps, check_fat>>

(* _raw_write(0, dll): one _send_chunk of the loop *)
Sw_Write ==
    /\ pc = "sw_write"
    /\ \E acked \in BOOLEAN :
        LET n == RawWriteChunk(pos, dll_len)
        IN  /\ wire' = Append(wire, Ev("RAW_STORAGE_WRITE", STORAGE_ID_SRAM, 0 + pos, n, acked))
            /\ IF acked
               THEN /\ pos' = pos + n
                    /\ pc' = IF pos + n < dll_len THEN "sw_write" ELSE SwNext("sw_write")
                    /\ UNCHANGED status
               ELSE End("raised") /\ UNCHANGED pos
    /\ UNCHANGED <<port_timeout, linkVars, storeVars, fatVars, splitVars, argVars, ci, vinfo, sw_vinfo, vinfo_apps, check_fat>>

(* _exec_from_ram *)
Sw_Exec ==
    /\ pc = "sw_exec"
    /\ \E acked \in BOOLEAN :
        /\ wire' = Append(wire, Ev("EXEC_FROM_RAM", 0, 0, 0, acked))
        /\ IF acked THEN pc' = SwNext("sw_exec") /\ UNCHANGED status ELSE End("raised")
    /\ UNCHANGED <<port_timeout, linkVars, storeVars, fatVars, splitVars, argVars, ci, vinfo, sw_vinfo, vinfo_apps,
                   pos, check_fat>>

(* switch_to_nwp_bootloader: if not self._read_ack(): raise *)
Sw_Ack ==
    /\ pc = "sw_ack"
    /\ \E s \in {<<>>, ACK} :
        LET a == ReadAck(s)
        IN  /\ wire' = Append(wire, Ev("READ_ACK", 0, 0, 0, a.ok))
            /\ IF a.ok THEN pc' = SwNext("sw_ack") /\ UNCHANGED status ELSE End("raised")
    /\ UNCHANGED <<port_timeout, linkVars, storeVars, fatVars, splitVars, argVars, ci, vinfo, sw_vinfo, vinfo_apps,
                   pos, check_fat>>


(***************************************************************************)
(* The subcommands                                                         *)
(***************************************************************************)
SLFS_BLOCK_SIZE == 4096
SLFS_FILE_OPEN_FLAG_COMMIT == 1
SLFS_FILE_OPEN_FLAG_SECURE == 2
SLFS_FILE_PUBLIC_WRITE == 32
SIGNATURE_LEN == 256             \* _close_file: len(signature) != 256
SIGNATURE_FILL == 70             \* _close_file: b'\x46' * 256
WIDE_TIMEOUT_FROM == 200000      \* _write_file_api: alloc_size_effective > 200000
NoSignature == -1                \* command.signature is None

\* A parsed subcommand group.  size: --size in KiB (format_flash) or
\* --file-size (write_file); sig_len: the length of the --signature file.
Cmd(cmd, file_len, size, commit_flag, sig_len) ==
    [cmd |-> cmd, file_len |-> file_len, size |-> size,
     commit_flag |-> commit_flag, sig_len |-> sig_len]

NoCmd == Cmd("none", 0, 0, FALSE, NoSignature)
FormatCmd == Cmd("format_flash", 0, 1024, FALSE, NoSignature)
EraseCmd == Cmd("erase_file", 0, 0, FALSE, NoSignature)
ReadCmd == Cmd("read_file", 0, 0, FALSE, NoSignature)
WriteCmds ==
    {Cmd("write_file", 0, 0, FALSE, NoSignature),
     Cmd("write_file", 1, 0, FALSE, NoSignature),
     Cmd("write_file", SLFS_BLOCK_SIZE, 2 * WIDE_TIMEOUT_FROM, FALSE, NoSignature),
     Cmd("write_file", SLFS_BLOCK_SIZE + 1, 0, TRUE, NoSignature),
     Cmd("write_file", 2 * SLFS_BLOCK_SIZE, 0, FALSE, SIGNATURE_LEN + 1),
     Cmd("write_file", 1, 0, FALSE, SIGNATURE_LEN - 1)}
Commands == {FormatCmd, EraseCmd, ReadCmd} \cup WriteCmds

\* The subcommands enumerated after the first one of a command line
FollowCmds == {EraseCmd, Cmd("write_file", 1, 0, FALSE, NoSignature)}

\* The subcommands enumerated with an image file
ImageCmds ==
    {FormatCmd, ReadCmd, Cmd("write_file", 0, 0, FALSE, NoSignature),
     Cmd("write_file", 1, 0, FALSE, NoSignature)}

\* The command lists of a run: none, global options only, or up to MaxCmds
\* subcommands.
CmdLists(img) ==
    {<<>>, <<NoCmd>>} \cup
    UNION {IF img THEN [1..n -> ImageCmds]
           ELSE {l \in [1..n -> Commands] : \A i \in 2..n : l[i] \in FollowCmds}
           : n \in 1..MaxCmds}

DllLens == {RAW_WRITE_CHUNK, RAW_WRITE_CHUNK + 1}

\* What the device answers to GET_LAST_STATUS
StatusStreams == {<<>>, ACK, ACK \o Frame(<<64, 0, 0, 0>>), ACK \o Frame(<<0, 0, 0, 64>>)}

\* What the device answers to GET_FILE_INFO
FileInfoReplies == {<<1, 0, 0, 0, 0, 0, 16, 0>>, <<0, 0, 0, 0, 0, 0, 0, 0>>, <<1, 0, 0, 0>>, NoReply}

\* What the device answers to the GET_FILE_INFO of read_file
ReadInfoReplies == FileInfoReplies \cup {<<1, 0, 0, 0, 0, 0, 16, 1>>, <<1, 0, 0, 0, 0, 0, 0, 0>>}

\* main(): command.image_file / command.output_file of the k-th group; the
\* global options are parsed with the first group only
CmdImageFile(k) == k = 1 /\ image_file
CmdOutputFile(k) == k = 1 /\ output_file
UseApi(k) == ~(CmdImageFile(k) /\ CmdOutputFile(k))

\* main(): the handler of a subcommand
CmdEntry(c) ==
    CASE c.cmd = "format_flash" -> "ff_send"
      [] c.cmd = "erase_file" -> "ef_info"
      [] c.cmd = "write_file" -> "wf_start"
      [] c.cmd = "read_file" -> "rf_info"
      [] OTHER -> "cmd"

\* _get_file_info on the live device
GetFileInfo(acked, reply) ==
    IF ~acked \/ reply = NoReply \/ Len(reply) < 5 \/ Len(reply) < 8
    THEN [ok |-> FALSE, exists |-> FALSE, size |-> 0]
    ELSE [ok |-> TRUE, exists |-> reply[1] = 1,
          size |-> ((reply[5] * 256 + reply[6]) * 256 + reply[7]) * 256 + reply[8]]

\* write_file: fs_flags and sign_data (its length) from the options
FsFlags(c) ==
    IF c.sig_len # NoSignature
    THEN SLFS_FILE_OPEN_FLAG_COMMIT + SLFS_FILE_OPEN_FLAG_SECURE + SLFS_FILE_PUBLIC_WRITE
    ELSE IF c.commit_flag THEN SLFS_FILE_OPEN_FLAG_COMMIT
    ELSE NoFlags

SignDataLen(c) == IF c.sig_len = NoSignature THEN NoSignature ELSE Min(c.sig_len, SIGNATURE_LEN)

\* _write_file_api: alloc_size, alloc_size_effective, timeout
AllocSizeUserOnly(c) == c.size

AllocSize(c) == Max(c.size, c.file_len)

AllocSizeEffective(c) ==
    IF FsFlags(c) # NoFlags /\ HasBit(FsFlags(c), SLFS_FILE_OPEN_FLAG_COMMIT)
    THEN 2 * AllocSize(c) ELSE AllocSize(c)

UploadTimeout(cur, c) ==
    IF AllocSizeEffective(c) > WIDE_TIMEOUT_FROM
    THEN Max(cur, (TIMEOUT * AllocSizeEffective(c)) \div WIDE_TIMEOUT_FROM + TIMEOUT)
    ELSE cur

\* _write_file_api: len(file_data[pos:pos + SLFS_BLOCK_SIZE])
FileChunkWhole(p, file_len) == file_len - p

FileChunk(p, file_len) == Min(SLFS_BLOCK_SIZE, file_len - p)

(* main(): for command in commands *)
Dispatch ==
    /\ pc = "cmd"
    /\ IF ci = Len(cmds)
       THEN pc' = "after" /\ UNCHANGED ci
       ELSE ci' = ci + 1 /\ pc' = CmdEntry(cmds[ci + 1])
    /\ UNCHANGED <<port_timeout, linkVars, storeVars, fatVars, splitVars, status, argVars, wire, vinfo, sw_vinfo,
                   vinfo_apps, pos, check_fat>>

(* format_slfs: FORMAT_FLASH; without a port, self.port.write raises *)
FF_Send ==
    /\ pc = "ff_send"
    /\ IF image_file
       THEN End("raised") /\ UNCHANGED wire
       ELSE \E acked \in BOOLEAN :
               /\ wire' = Append(wire, Ev("FORMAT_FLASH", cmds[ci].size \div 4, 0, 0, acked))
               /\ IF acked THEN pc' = "ff_status" /\ UNCHANGED status ELSE End("raised")
    /\ UNCHANGED <<port_timeout, linkVars, storeVars, fatVars, splitVars, argVars, ci, vinfo, sw_vinfo, vinfo_apps,
                   pos, check_fat>>

(* _get_last_status at p and the caller's "if not s.is_ok: raise"; fat: the *)
(* caller is write_file and main() sets check_fat when it returns           *)
GLS(p, q, fat) ==
    /\ pc = p
    /\ \E s \in StatusStreams :
        LET r == GetLastStatus(s)
        IN  /\ wire' = Append(wire, Ev("GET_LAST_STATUS", r.value, 0, 0, r.ok))
            /\ IF r.ok /\ IsOk(r.value)
               THEN pc' = q /\ check_fat' = (check_fat \/ fat) /\ UNCHANGED status
               ELSE End("raised") /\ UNCHANGED check_fat
    /\ UNCHANGED <<port_timeout, linkVars, storeVars, fatVars, splitVars, argVars, ci, vinfo, sw_vinfo, vinfo_apps, pos>>

FF_Status == GLS("ff_status", "cmd", FALSE)

(* erase_file(filename): _get_file_info at p; q: send ERASE_FILE; ret: return. *)
(* Without a port _get_file_info looks the file up in the FAT of the image    *)
(* file (get_fat_info, which raises when no FAT is valid).                    *)
EraseInfo(p, q, ret) ==
    /\ pc = p
    /\ IF image_file
       THEN \E found \in {"yes", "no", "raise"} :
               /\ UNCHANGED wire
               /\ IF found = "raise" THEN End("raised")
                  ELSE IF found = "yes" THEN pc' = q /\ UNCHANGED status
                  ELSE pc' = ret /\ UNCHANGED status
       ELSE \E acked \in BOOLEAN, reply \in FileInfoReplies :
               LET f == GetFileInfo(acked, reply)
               IN  /\ wire' = Append(wire, Ev("GET_FILE_INFO", IF f.exists THEN 1 ELSE 0, 0, 0, f.ok))
                   /\ IF ~f.ok THEN End("raised")
                      ELSE IF f.exists THEN pc' = q /\ UNCHANGED status
                      ELSE pc' = ret /\ UNCHANGED status
    /\ UNCHANGED <<port_timeout, linkVars, storeVars, fatVars, splitVars, argVars, ci, vinfo, sw_vinfo, vinfo_apps,
                   pos, check_fat>>

(* erase_file: ERASE_FILE; without a port, self.port.write raises *)
EraseSend(p, q) ==
    /\ pc = p
    /\ IF image_file
       THEN End("raised") /\ UNCHANGED wire
       ELSE \E acked \in BOOLEAN :
               /\ wire' = Append(wire, Ev("ERASE_FILE", 0, 0, 0, acked))
               /\ IF acked THEN pc' = q /\ UNCHANGED status ELSE End("raised")
    /\ UNCHANGED <<port_timeout, linkVars, storeVars, fatVars, splitVars, argVars, ci, vinfo, sw_vinfo, vinfo_apps,
                   pos, check_fat>>

EF_InfoForce == EraseInfo("ef_info", "ef_send", "ef_send")

EF_Info == EraseInfo("ef_info", "ef_send", "cmd")
EF_Send == EraseSend("ef_send", "ef_status")
EF_Status == GLS("ef_status", "cmd", FALSE)

(* write_file: read the local file; an empty file is not uploaded.  The raw *)
(* path (use_api == False) is entered at "wf_raw".                          *)
Wr_Start ==
    /\ pc = "wf_start"
    /\ IF cmds[ci].file_len = 0
       THEN pc' = "cmd" /\ check_fat' = TRUE
       ELSE pc' = (IF UseApi(ci) THEN "wf_info" ELSE "wf_raw") /\ UNCHANGED check_fat
    /\ UNCHANGED <<port_timeout, linkVars, storeVars, fatVars, splitVars, status, argVars, ci, wire, vinfo, sw_vinfo,
                   vinfo_apps, pos>>

(* main(): cc.copy_input_file_to_output_file() was called before write_file; *)
(* _write_file_raw, which SpecStore follows step by step, returns or raises *)
Wr_Raw ==
    /\ pc = "wf_raw"
    /\ \E ok \in BOOLEAN :
        IF ok THEN pc' = "cmd" /\ check_fat' = TRUE /\ UNCHANGED status
        ELSE End("raised") /\ UNCHANGED check_fat
    /\ UNCHANGED <<port_timeout, linkVars, storeVars, fatVars, splitVars, argVars, ci, wire, vinfo, sw_vinfo,
                   vinfo_apps, pos>>

(* _write_file_api: finfo = self._get_file_info(cc_filename) *)
Wr_Info == EraseInfo("wf_info", "wf_einfo", "wf_open")

(* _write_file_api: self.erase_file(cc_filename) *)
Wr_EraseInfo == EraseInfo("wf_einfo", "wf_esend", "wf_open")
Wr_EraseSend == EraseSend("wf_esend", "wf_estatus")
Wr_EraseStatus == GLS("wf_estatus", "wf_open", FALSE)

(* _write_file_api: timeout = self.port.timeout, which raises without a     *)
(* port, and with self._serial_timeout(timeout): _open_file_for_write       *)
Wr_Open ==
    /\ pc = "wf_open"
    /\ IF image_file
       THEN End("raised") /\ UNCHANGED <<wire, port_timeout>>
       ELSE \E acked \in BOOLEAN, token \in {0, 4} :
               LET c == cmds[ci]
                   timeout == UploadTimeout(port_timeout, c)
                   toobig == BsizeIdx(AllocSize(c)) = 0
                   ok == ~toobig /\ acked /\ token = 4
                   t1 == SerialTimeoutEnter(port_timeout, timeout)
               IN  /\ wire' = IF toobig THEN wire
                              ELSE Append(wire, Ev("START_UPLOAD", OpenFlags(AllocSize(c), FsFlags(c)),
                                                   0, 0, ok))
                   /\ port_timeout' = SerialTimeoutExit(port_timeout, timeout, ~ok, t1)
                   /\ IF ok THEN pc' = "wf_chunk" /\ UNCHANGED status ELSE End("raised")
    /\ pos' = 0
    /\ UNCHANGED <<linkVars, storeVars, fatVars, splitVars, argVars, ci, vinfo, sw_vinfo, vinfo_apps, check_fat>>

(* _write_file_api: one FILE_CHUNK of the loop *)
Wr_Chunk ==
    /\ pc = "wf_chunk"
    /\ \E acked \in BOOLEAN :
        /\ wire' = Append(wire, Ev("FILE_CHUNK", pos, FileChunk(pos, cmds[ci].file_len), 0, acked))
        /\ IF acked THEN pc' = "wf_cstatus" /\ UNCHANGED status ELSE End("raised")
    /\ UNCHANGED <<port_timeout, linkVars, storeVars, fatVars, splitVars, argVars, ci, vinfo, sw_vinfo, vinfo_apps,
                   pos, check_fat>>

\* _write_file_api with the status of a chunk not looked at
ChunkStatusIgnored(r) == r.ok

\* _write_file_api: "if not res.is_ok: raise" on the status r of a chunk
ChunkStatusOk(r) == r.ok /\ IsOk(r.value)

(* _write_file_api: res = self._get_last_status() after the chunk *)
Wr_ChunkStatus ==
    /\ pc = "wf_cstatus"
    /\ \E s \in StatusStreams :
        LET r == GetLastStatus(s)
            n == FileChunk(pos, cmds[ci].file_len)
        IN  /\ wire' = Append(wire, Ev("GET_LAST_STATUS", r.value, 0, 0, r.ok))
            /\ IF ChunkStatusOk(r)
               THEN /\ pos' = pos + n
                    /\ pc' = IF pos + n < cmds[ci].file_len THEN "wf_chunk" ELSE "wf_close"
                    /\ UNCHANGED status
               ELSE End("raised") /\ UNCHANGED pos
    /\ UNCHANGED <<port_timeout, linkVars, storeVars, fatVars, splitVars, argVars, ci, vinfo, sw_vinfo, vinfo_apps, check_fat>>

(* _close_file(sign_data): FINISH_UPLOAD *)
Wr_Close ==
    /\ pc = "wf_close"
    /\ LET n == SignDataLen(cmds[ci])
           siglen == IF n = NoSignature THEN SIGNATURE_LEN ELSE n
           fill == IF n = NoSignature THEN SIGNATURE_FILL ELSE -1
       IN  IF siglen # SIGNATURE_LEN
           THEN End("raised") /\ UNCHANGED wire
           ELSE \E acked \in BOOLEAN :
                   /\ wire' = Append(wire, Ev("FINISH_UPLOAD", siglen, fill, 0, acked))
                   /\ IF acked THEN pc' = "wf_clstatus" /\ UNCHANGED status ELSE End("raised")
    /\ UNCHANGED <<port_timeout, linkVars, storeVars, fatVars, splitVars, argVars, ci, vinfo, sw_vinfo, vinfo_apps,
                   pos, check_fat>>

Wr_CloseStatus == GLS("wf_clstatus", "cmd", TRUE)

\* read_file: the size _get_file_info reported to the read_file under way
ReadFileSize ==
    LET own == SelectSeq(wire, LAMBDA e : e.k = ci /\ e.op = "GET_FILE_INFO")
    IN  own[Len(own)].b

\* read_file: "if not finfo.exists: raise", else go on to open the file
ReadMissing(f) == IF f.exists THEN "rf_open" ELSE "raise"

(* read_file(cc_fname, local_file): finfo = self._get_file_info(cc_fname).  *)
(* Without a port the file is looked up in the FAT and read from the image, *)
(* which SpecStore follows step by step: read_file returns or raises.       *)
Rd_Info ==
    /\ pc = "rf_info"
    /\ IF image_file
       THEN \E ok \in BOOLEAN :
               /\ UNCHANGED wire
               /\ IF ok THEN pc' = "cmd" /\ UNCHANGED status ELSE End("raised")
       ELSE \E acked \in BOOLEAN, reply \in ReadInfoReplies :
               LET f == GetFileInfo(acked, reply)
               IN  /\ wire' = Append(wire, Ev("GET_FILE_INFO", IF f.exists THEN 1 ELSE 0,
                                              f.size, 0, f.ok))
                   /\ IF ~f.ok \/ ReadMissing(f) = "raise" THEN End("raised")
                      ELSE pc' = ReadMissing(f) /\ UNCHANGED status
    /\ UNCHANGED <<port_timeout, linkVars, storeVars, fatVars, splitVars, argVars, ci, vinfo, sw_vinfo, vinfo_apps,
                   pos, check_fat>>

(* read_file: self._open_file_for_read(cc_fname), then "while pos < finfo.size" *)
Rd_Open ==
    /\ pc = "rf_open"
    /\ \E acked \in BOOLEAN, token \in {0, 4} :
          /\ wire' = Append(wire, Ev("START_UPLOAD", 0, 0, 0, acked /\ token = 4))
          /\ IF acked /\ token = 4
             THEN pc' = (IF 0 < ReadFileSize THEN "rf_chunk" ELSE "rf_close") /\ UNCHANGED status
             ELSE End("raised")
    /\ pos' = 0
    /\ UNCHANGED <<port_timeout, linkVars, storeVars, fatVars, splitVars, argVars, ci, vinfo, sw_vinfo, vinfo_apps,
                   check_fat>>

(* read_file: one READ_FILE_CHUNK of the loop, its answer and the write of *)
(* the answer to the local file                                            *)
Rd_Chunk ==
    /\ pc = "rf_chunk"
    /\ LET toread == Min(ReadFileSize - pos, SLFS_BLOCK_SIZE)
       IN  \E acked \in BOOLEAN, got \in {toread, toread - 1, None} :
              LET ok == acked /\ got = toread
                  asked == Ev("READ_FILE_CHUNK", pos, toread, IF acked THEN got ELSE None, ok)
              IN  IF ok
                  THEN /\ wire' = wire \o <<asked, Ev("LOCAL_WRITE", pos, toread, 0, TRUE)>>
                       /\ pos' = pos + toread
                       /\ pc' = IF pos + toread < ReadFileSize THEN "rf_chunk" ELSE "rf_close"
                       /\ UNCHANGED status
                  ELSE /\ wire' = Append(wire, asked)
                       /\ End("raised")
                       /\ UNCHANGED pos
    /\ UNCHANGED <<port_timeout, linkVars, storeVars, fatVars, splitVars, argVars, ci, vinfo, sw_vinfo, vinfo_apps,
                   check_fat>>

(* read_file: self._close_file() *)
Rd_Close ==
    /\ pc = "rf_close"
    /\ \E acked \in BOOLEAN :
          /\ wire' = Append(wire, Ev("FINISH_UPLOAD", SIGNATURE_LEN, SIGNATURE_FILL, 0, acked))
          /\ IF acked THEN pc' = "rf_clstatus" /\ UNCHANGED status ELSE End("raised")
    /\ UNCHANGED <<port_timeout, linkVars, storeVars, fatVars, splitVars, argVars, ci, vinfo, sw_vinfo, vinfo_apps,
                   pos, check_fat>>

Rd_CloseStatus == GLS("rf_clstatus", "cmd", FALSE)

(* main(): if check_fat: cc.get_fat_info().  The reads of get_fat_info are *)
(* recorded as one operation on the port; with an image file they are      *)
(* reads of that file.                                                     *)
After_CheckFat ==
    /\ pc = "after"
    /\ IF check_fat
       THEN \E ok \in BOOLEAN :
               /\ wire' = IF image_file THEN wire
                          ELSE Append(wire, EvAfter("GET_FAT_INFO", 0, 0, 0, ok))
               /\ IF ok THEN pc' = "reboot" /\ UNCHANGED status ELSE End("raised")
       ELSE pc' = "reboot" /\ UNCHANGED <<status, wire>>
    /\ UNCHANGED <<port_timeout, linkVars, storeVars, fatVars, splitVars, argVars, ci, vinfo, sw_vinfo, vinfo_apps,
                   pos, check_fat>>

(* main(): if args.reboot_to_app: cc.reboot_to_app(); "All commands done" *)
Reboot ==
    /\ pc = "reboot"
    /\ wire' = IF reboot_to_app /\ ~image_file
               THEN Append(wire, EvAfter("RESET", 0, 0, 0, TRUE)) ELSE wire
    /\ End("done")
    /\ UNCHANGED <<port_timeout, linkVars, storeVars, fatVars, splitVars, argVars, ci, vinfo, sw_vinfo, vinfo_apps,
                   pos, check_fat>>

Init ==
    /\ port_timeout = TIMEOUT
    /\ LinkIdle
    /\ pc = "main"
    /\ status = "running"
    /\ image_file \in BOOLEAN
    /\ output_file \in (IF image_file THEN BOOLEAN ELSE {FALSE})
    /\ reboot_to_app \in BOOLEAN
    /\ cmds \in CmdLists(image_file)
    /\ dll_len \in (IF image_file THEN {RAW_WRITE_CHUNK} ELSE DllLens)
    /\ ci = 0
    /\ wire = <<>>
    /\ vinfo = NoVinfo
    /\ sw_vinfo = NoVinfo
    /\ vinfo_apps = NoVinfo
    /\ pos = 0
    /\ check_fat = FALSE
    /\ StoreIdle
    /\ FatIdle
    /\ SplitIdle

Next ==
    \/ Main_Start
    \/ Connect_Reset
    \/ Connect_Break
    \/ Connect_Version
    \/ Sw_Version
    \/ Sw_Apps
    \/ Sw_Break
    \/ Sw_Version2
    \/ Sw_StorageList
    \/ Sw_Write
    \/ Sw_Exec
    \/ Sw_Ack
    \/ Dispatch
    \/ FF_Send
    \/ FF_Status
    \/ EF_Info
    \/ EF_Send
    \/ EF_Status
    \/ Wr_Start
    \/ Wr_Raw
    \/ Wr_Info
    \/ Wr_EraseInfo
    \/ Wr_EraseSend
    \/ Wr_EraseStatus
    \/ Wr_Open
    \/ Wr_Chunk
    \/ Wr_ChunkStatus
    \/ Wr_Close
    \/ Wr_CloseStatus
    \/ Rd_Info
    \/ Rd_Open
    \/ Rd_Chunk
    \/ Rd_Close
    \/ Rd_CloseStatus
    \/ After_CheckFat
    \/ Reboot

Spec == Init /\ [][Next]_vars


(***************************************************************************)
(* Byte strings of the storage layer.  A byte string is a sequence of      *)
(* runs [src, off, len]: len bytes of the source src from its offset off.  *)
(* The sources are the original content of a medium ("flash", "in"), the   *)
(* files given on the command line ("gang", "local"), and the fills        *)
(* "erased" (0xFF), "zero" and "byte" (one byte of value off), which have  *)
(* no position.                                                            *)
(***************************************************************************)
Fills == {"erased", "zero"}

Run(src, off, len) == [src |-> src, off |-> off, len |-> len]

\* bytes([b])
Byte(b) == <<Run("byte", b, 1)>>

\* the first n bytes of a file or medium
Source(src, n) == IF n > 0 THEN <<Run(src, 0, n)>> ELSE <<>>

\* len(d)
RECURSIVE DLen(_)
DLen(d) == IF d = <<>> THEN 0 ELSE Head(d).len + DLen(Tail(d))

\* the run r without its first n bytes, and cut to its first n bytes
RunDrop(r, n) ==
    IF r.src \in Fills THEN Run(r.src, r.off, r.len - n) ELSE Run(r.src, r.off + n, r.len - n)

RunTake(r, n) == Run(r.src, r.off, n)

\* d[:n] and d[n:] for 0 <= n
RECURSIVE DTake(_, _)
DTake(d, n) ==
    IF d = <<>> \/ n <= 0 THEN <<>>
    ELSE IF Head(d).len <= n THEN <<Head(d)>> \o DTake(Tail(d), n - Head(d).len)
    ELSE <<RunTake(Head(d), n)>>

RECURSIVE DDrop(_, _)
DDrop(d, n) ==
    IF d = <<>> \/ n <= 0 THEN d
    ELSE IF Head(d).len <= n THEN DDrop(Tail(d), n - Head(d).len)
    ELSE <<RunDrop(Head(d), n)>> \o Tail(d)

\* d[a:b] for 0 <= a
DSlice(d, a, b) == DTake(DDrop(d, a), b - a)

\* two runs that are one run
Joins(r, q) ==
    /\ r.src = q.src
    /\ r.src # "byte"
    /\ r.src \in Fills \/ q.off = r.off + r.len

\* the same bytes in the fewest runs
RECURSIVE DNorm(_)
DNorm(d) ==
    IF Len(d) = 0 THEN d
    ELSE IF Head(d).len = 0 THEN DNorm(Tail(d))
    ELSE IF Len(d) = 1 THEN d
    ELSE IF d[2].len = 0 THEN DNorm(<<d[1]>> \o Tail(Tail(d)))
    ELSE IF Joins(d[1], d[2])
    THEN DNorm(<<Run(d[1].src, d[1].off, d[1].len + d[2].len)>> \o Tail(Tail(d)))
    ELSE <<d[1]>> \o DNorm(Tail(d))

\* a + b
DCat(a, b) == DNorm(a \o b)

\* f.seek(offset); f.write(d) on a file of content c: a gap past the end of
\* the file reads as zeros
FileWrite(c, offset, d) ==
    LET gap == IF offset > DLen(c) THEN <<Run("zero", 0, offset - DLen(c))>> ELSE <<>>
    IN  DNorm(DTake(c, offset) \o gap \o d \o DDrop(c, offset + DLen(d)))

\* f.seek(offset); f.read(size) on a file of content c
FileRead(c, offset, size) == DNorm(DSlice(c, offset, offset + size))


(***************************************************************************)
(* SpecStore: the raw storage layer under the commands that use it.  With  *)
(* a port, reads and writes are packets to the device and change or return *)
(* its serial flash; without one, reads come from the image file and       *)
(* writes go to the output file.  s_cmds are the storage commands of one   *)
(* run of main(), in order: commands that make no raw access are left out, *)
(* and the raw write_file is the command of the first group, the only one  *)
(* that carries -if and -of.  Every step is one packet exchange or one     *)
(* file access, appended to s_hist with the device's answer.               *)
(***************************************************************************)
MaxStoreCmds == 2      \* most storage commands in one run
FlashBlocks == 4       \* blocks of the device's serial flash

STORAGE_ID_SFLASH == 2
SFLASH_BIT == 4                       \* CC3x00StorageList.SFLASH_BIT = 0x04
IMAGE_STORAGE_LIST == 15              \* _get_storage_list without a port
IMAGE_BLOCK_COUNT == 1024             \* _get_storage_info without a port
RAW_READ_CHUNK == 4096                \* _raw_read: chunk_size = 4096
SFFS_FAT_FILE_HEADER_SIZE == 8
FLASH_HEADER_LEN == 8                 \* write_flash: data[8:] and data[:8]
ReadToEnd == -1                       \* read_flash --size, default -1

\* a file of the FAT as get_fat_info(extended=True) finds it; NoEntry: the
\* loop of _write_file_raw finds no file of that name
Entry(start_block, size_blocks) ==
    [start_block |-> start_block, size_blocks |-> size_blocks, size |-> 0]
NoEntry == Entry(0, 0)

\* CC3x00SffsStatsFileEntry.read_header: size is the number in bytes 0..2 of
\* the file's header
ReadHeader(e, size) == [e EXCEPT !.size = size]

\* one storage command and its arguments
StoreCmd(cmd, len, erase, offset, size, entry) ==
    [cmd |-> cmd, len |-> len, erase |-> erase, offset |-> offset, size |-> size, entry |-> entry]

\* the calls a command makes on the storage layer
\* (sinfo: the block count of the sinfo argument of _raw_read, None when it
\* is not passed)
StoreCall(call, sid, a, n, data) ==
    [call |-> call, sid |-> sid, a |-> a, n |-> n, data |-> data, sinfo |-> None]
EraseCall(start, count, sid) == StoreCall("erase", sid, start, count, <<>>)
WriteCall(offset, data, sid) == StoreCall("raw_write", sid, offset, DLen(data), data)
ReadCall(offset, size, sid) == StoreCall("raw_read", sid, offset, size, <<>>)
InfoCall(sid) == StoreCall("storage_info", sid, 0, 0, <<>>)
SinkCall == StoreCall("sink", STORAGE_ID_SFLASH, 0, 0, <<>>)

Plan(st, todo) == [st |-> st, todo |-> todo]

\* write_flash(image, erase) with len(image.read()) = len
WriteFlashHeaderFirst(len, erase) ==
    LET data == Source("gang", len)
    IN  (IF erase
         THEN <<EraseCall(0, CeilDiv(len, SLFS_BLOCK_SIZE), STORAGE_ID_SFLASH)>>
         ELSE <<>>)
        \o <<WriteCall(0, DTake(data, FLASH_HEADER_LEN), STORAGE_ID_SFLASH),
             WriteCall(FLASH_HEADER_LEN, DDrop(data, FLASH_HEADER_LEN), STORAGE_ID_SFLASH)>>

WriteFlash(len, erase) ==
    LET data == Source("gang", len)
    IN  (IF erase
         THEN <<EraseCall(0, CeilDiv(len, SLFS_BLOCK_SIZE), STORAGE_ID_SFLASH)>>
         ELSE <<>>)
        \o <<WriteCall(FLASH_HEADER_LEN, DDrop(data, FLASH_HEADER_LEN), STORAGE_ID_SFLASH),
             WriteCall(0, DTake(data, FLASH_HEADER_LEN), STORAGE_ID_SFLASH)>>

\* read_flash(image_file, offset, size)
ReadFlash(offset, size) == <<ReadCall(offset, size, STORAGE_ID_SFLASH), SinkCall>>

\* read_file through the FAT: the offset and the size of its _raw_read
ReadFileBlocks(e) == <<e.start_block * SLFS_BLOCK_SIZE + SFFS_FAT_FILE_HEADER_SIZE,
                       e.size_blocks * SLFS_BLOCK_SIZE>>

ReadFileRange(e) == <<e.start_block * SLFS_BLOCK_SIZE + SFFS_FAT_FILE_HEADER_SIZE, e.size>>

\* read_file without the test "if not finfo.exists"
ReadFileUnchecked(c, in, port) ==
    Plan("running",
         <<InfoCall(STORAGE_ID_SFLASH),
           ReadCall(c.entry.start_block * SLFS_BLOCK_SIZE + SFFS_FAT_FILE_HEADER_SIZE,
                    c.entry.size_blocks * SLFS_BLOCK_SIZE, STORAGE_ID_SFLASH),
           SinkCall>>)

\* read_file(cc_fname, local_file, file_id) without a port or with a file
\* id: c.entry is the file in the FAT, its header read.  Without a port
\* get_fat_info does not return when the image ends before the header does.
ReadFile(c, in, port) ==
    IF c.entry = NoEntry THEN Plan("raised", <<>>)
    ELSE IF ~port /\ DLen(FileRead(in, c.entry.start_block * SLFS_BLOCK_SIZE,
                                   SFFS_FAT_FILE_HEADER_SIZE)) # SFFS_FAT_FILE_HEADER_SIZE
    THEN Plan("hung", <<>>)
    ELSE Plan("running",
              <<InfoCall(STORAGE_ID_SFLASH),
                ReadCall(ReadFileRange(c.entry)[1], ReadFileRange(c.entry)[2], STORAGE_ID_SFLASH),
                SinkCall>>)

\* _write_file_raw: blocks = int(alloc_size/fat_info.block_size+1)
RawBlocksNone(size, file_len) == 0

RawBlocks(size, file_len) ==
    (Max(size, file_len) + SFFS_FAT_FILE_HEADER_SIZE) \div SLFS_BLOCK_SIZE + 1

\* _write_file_raw: header_new, from the header get_fat_info read
HeaderNewAll(header, file_len) ==
    Byte(file_len % 256) \o Byte((file_len \div 256) % 256)
    \o Byte((file_len \div 65536) % 256) \o Source("zero", 5)

HeaderNew(header, file_len) ==
    Byte(file_len % 256) \o Byte((file_len \div 256) % 256)
    \o Byte((file_len \div 65536) % 256) \o DDrop(header, 3)

\* write_file(..., use_api=False) on the image `in`: the local file of
\* c.len bytes, --file-size c.size, and c.entry the file of that name in
\* the FAT.  get_fat_info reads the header of each file with _raw_read,
\* which does not return when the image ends before the header does.
WriteFileRaw(c, in) ==
    LET fatfs_offset == c.entry.start_block * SLFS_BLOCK_SIZE
        header == FileRead(in, fatfs_offset, SFFS_FAT_FILE_HEADER_SIZE)
    IN  IF c.len = 0 THEN Plan("running", <<>>)
        ELSE IF c.entry # NoEntry /\ DLen(header) # SFFS_FAT_FILE_HEADER_SIZE
        THEN Plan("hung", <<>>)
        ELSE IF c.entry = NoEntry THEN Plan("raised", <<>>)
        ELSE IF RawBlocks(c.size, c.len) > c.entry.size_blocks THEN Plan("raised", <<>>)
        ELSE Plan("running",
                  <<WriteCall(fatfs_offset, HeaderNew(header, c.len), STORAGE_ID_SFLASH),
                    WriteCall(SFFS_FAT_FILE_HEADER_SIZE + fatfs_offset, Source("local", c.len),
                              STORAGE_ID_SFLASH)>>)

\* main(): the handler of one command, up to its first call of the layer
PlanOf(c, in) ==
    IF c.cmd = "write_flash" THEN Plan("running", WriteFlash(c.len, c.erase))
    ELSE IF c.cmd = "read_flash" THEN Plan("running", ReadFlash(c.offset, c.size))
    ELSE IF c.cmd = "write_file" THEN WriteFileRaw(c, in)
    ELSE IF c.cmd = "read_file" THEN ReadFile(c, in, s_port)
    ELSE Plan("running", <<WriteCall(0, Source("dll", c.len), STORAGE_ID_SRAM)>>)

\* _raw_write and _raw_read: the tests on the storage list
StorageRefusedNever(sid, value) == FALSE

StorageRefused(sid, value) ==
    \/ sid = STORAGE_ID_SFLASH /\ ~HasBit(value, SFLASH_BIT)
    \/ sid = STORAGE_ID_SRAM /\ ~HasBit(value, SRAM_BIT)

\* _raw_read: the size to read, or None when the request is refused
ReadSize(offset, size, storage_size) ==
    IF offset > storage_size THEN None
    ELSE IF size < 1 THEN storage_size - offset
    ELSE IF size + offset > storage_size THEN None
    ELSE size

\* _raw_read: the size of the next _read_chunk
ReadChunkWhole(size, got) == size - got

ReadChunk(size, got) == Min(RAW_READ_CHUNK, size - got)

\* the device: RAW_STORAGE_ERASE of count blocks from block start
Erased(flash, start, count) ==
    LET from == Min(start * SLFS_BLOCK_SIZE, DLen(flash))
        to == Min((start + count) * SLFS_BLOCK_SIZE, DLen(flash))
    IN  FileWrite(flash, from, Source("erased", to - from))

\* the inputs of a run
GangLens == {5, 4089}
ReadArgs ==
    {<<0, ReadToEnd>>, <<0, 8>>, <<4, 4100>>, <<2 * SLFS_BLOCK_SIZE, 8>>,
     <<FlashBlocks * SLFS_BLOCK_SIZE + 8, 8>>}
LocalLens == {5, 4088, 4089}
Entries == {NoEntry, Entry(2, 1), Entry(2, 2)}
InLens == {2 * SLFS_BLOCK_SIZE + 4, 4 * SLFS_BLOCK_SIZE}
ListReplies == {SRAM_BIT + SFLASH_BIT + 2, SFLASH_BIT, SRAM_BIT, None}
InfoReplies == {FlashBlocks, None}
ReadReplies == {"good", "short", "none"}

WriteFlashCmds == {StoreCmd("write_flash", n, e, 0, 0, NoEntry) : n \in GangLens, e \in BOOLEAN}
ReadFlashCmds == {StoreCmd("read_flash", 0, FALSE, a[1], a[2], NoEntry) : a \in ReadArgs}
WriteFileCmds ==
    {StoreCmd("write_file", n, FALSE, 0, 0, e) : n \in LocalLens, e \in Entries}
    \cup {StoreCmd("write_file", 5, FALSE, 0, SLFS_BLOCK_SIZE, Entry(2, 1))}
ReadFileCmds ==
    {StoreCmd("read_file", 0, FALSE, 0, 0, NoEntry)}
    \cup {StoreCmd("read_file", 0, FALSE, 0, 0, ReadHeader(Entry(2, 1), n)) : n \in {0, 5}}
    \cup {StoreCmd("read_file", 0, FALSE, 0, 0, ReadHeader(Entry(2, 2), 4100))}
LoadDllCmd == StoreCmd("load_dll", 5, FALSE, 0, 0, NoEntry)

\* the first storage command, and those that follow it
FirstStoreCmds(port, hasout) ==
    WriteFlashCmds \cup ReadFlashCmds \cup ReadFileCmds
    \cup (IF port THEN {LoadDllCmd} ELSE {})
    \cup (IF ~port /\ hasout THEN WriteFileCmds ELSE {})
NextStoreCmds == WriteFlashCmds \cup ReadFlashCmds \cup ReadFileCmds

RECURSIVE StoreTails(_)
StoreTails(n) ==
    IF n = 0 THEN {<<>>}
    ELSE {<<>>} \cup {<<c>> \o t : c \in NextStoreCmds, t \in StoreTails(n - 1)}

StoreCmdLists(port, hasout) ==
    {<<c>> \o t : c \in FirstStoreCmds(port, hasout), t \in StoreTails(MaxStoreCmds - 1)}

\* one entry of s_hist
SEv(op, sid, a, n, data, ok) ==
    [op |-> op, sid |-> sid, a |-> a, n |-> n, data |-> data, ok |-> ok, k |-> s_ci]
CallEv(c) == SEv(c.call, c.sid, c.a, c.n, c.data, TRUE)
RetEv(c, data) == SEv("return", c.sid, c.a, DLen(data), data, TRUE)

StoreFixed == <<port_timeout, linkVars, mainVars, fatVars, splitVars, s_port, s_hasout, s_in, s_cmds>>

\* main(): the next command, or the end of the loop; a raw write_file is
\* preceded by copy_input_file_to_output_file
S_Start ==
    /\ s_status = "running"
    /\ s_todo = <<>>
    /\ IF s_ci = Len(s_cmds)
       THEN /\ s_status' = "done"
            /\ UNCHANGED <<s_ci, s_todo, s_out, s_hist>>
       ELSE LET c == s_cmds[s_ci + 1]
                p == PlanOf(c, s_in)
                raw == c.cmd = "write_file"
            IN  /\ s_ci' = s_ci + 1
                /\ s_out' = IF raw THEN FileWrite(s_out, 0, s_in) ELSE s_out
                /\ s_hist' = IF raw
                             THEN Append(s_hist, [SEv("COPY", STORAGE_ID_SFLASH, 0, DLen(s_in), s_in, TRUE)
                                                  EXCEPT !.k = s_ci + 1])
                             ELSE s_hist
                /\ s_todo' = p.todo
                /\ s_status' = p.st
    /\ UNCHANGED <<StoreFixed, s_flash, s_step>>

\* _erase_blocks: RAW_STORAGE_ERASE; without a port _send_packet raises
S_Erase ==
    /\ s_status = "running"
    /\ s_todo # <<>>
    /\ Head(s_todo).call = "erase"
    /\ LET c == Head(s_todo)
       IN  IF ~s_port
           THEN s_status' = "raised" /\ UNCHANGED <<s_flash, s_todo, s_hist>>
           ELSE \E acked \in BOOLEAN :
                   /\ s_hist' = Append(s_hist, SEv("ERASE", c.sid, c.a, c.n, <<>>, acked))
                   /\ IF acked
                      THEN /\ s_flash' = Erased(s_flash, c.a, c.n)
                           /\ s_todo' = Tail(s_todo)
                           /\ UNCHANGED s_status
                      ELSE s_status' = "raised" /\ UNCHANGED <<s_flash, s_todo>>
    /\ UNCHANGED <<StoreFixed, s_out, s_ci, s_step>>

\* read_file: sinfo = self._get_storage_info(storage_id=STORAGE_ID_SFLASH),
\* passed on to the _raw_read that follows
S_StorageInfo ==
    /\ s_status = "running"
    /\ s_todo # <<>>
    /\ Head(s_todo).call = "storage_info"
    /\ \E blocks \in (IF s_port THEN InfoReplies ELSE {IMAGE_BLOCK_COUNT}) :
        LET c == Head(s_todo)
            info == IF s_port THEN <<SEv("INFO", c.sid, blocks, 0, <<>>, blocks # None)>> ELSE <<>>
        IN  /\ s_hist' = s_hist \o info
            /\ IF blocks = None
               THEN s_status' = "raised" /\ UNCHANGED s_todo
               ELSE /\ s_todo' = <<[s_todo[2] EXCEPT !.sinfo = blocks]>> \o Tail(Tail(s_todo))
                    /\ UNCHANGED s_status
    /\ UNCHANGED <<StoreFixed, s_flash, s_out, s_ci, s_step>>

\* read_flash and read_file: the write of the data read to the local file
S_Sink ==
    /\ s_status = "running"
    /\ s_todo # <<>>
    /\ Head(s_todo).call = "sink"
    /\ LET data == s_hist[Len(s_hist)].data
       IN  s_hist' = Append(s_hist, SEv("SINK", Head(s_todo).sid, 0, DLen(data), data, TRUE))
    /\ s_todo' = Tail(s_todo)
    /\ UNCHANGED <<StoreFixed, s_flash, s_out, s_ci, s_step, s_status>>

\* _raw_write and _raw_read: slist = self._get_storage_list() and the tests
\* on it; _raw_write of no data returns here, and so does a _raw_read that
\* was given its sinfo and has nothing to read
S_List ==
    /\ s_status = "running"
    /\ s_todo # <<>>
    /\ Head(s_todo).call \in {"raw_write", "raw_read"}
    /\ s_step.phase = "none"
    /\ \E v \in (IF s_port THEN ListReplies ELSE {IMAGE_STORAGE_LIST}) :
        LET c == Head(s_todo)
            got == v # None
            asked == <<CallEv(c), SEv("LIST", c.sid, v, 0, <<>>, got)>>
        IN  IF ~got \/ StorageRefused(c.sid, v)
            THEN /\ s_status' = "raised"
                 /\ s_hist' = s_hist \o asked
                 /\ UNCHANGED <<s_todo, s_step>>
            ELSE IF c.call = "raw_write" /\ c.n = 0
            THEN /\ s_hist' = s_hist \o asked \o <<RetEv(c, <<>>)>>
                 /\ s_todo' = Tail(s_todo)
                 /\ UNCHANGED <<s_status, s_step>>
            ELSE IF c.call = "raw_read" /\ c.sinfo # None
            THEN LET size == ReadSize(c.a, c.n, c.sinfo * SLFS_BLOCK_SIZE)
                 IN  IF size = None
                     THEN /\ s_status' = "raised"
                          /\ s_hist' = s_hist \o asked
                          /\ UNCHANGED <<s_todo, s_step>>
                     ELSE IF size = 0
                     THEN /\ s_hist' = s_hist \o asked \o <<RetEv(c, <<>>)>>
                          /\ s_todo' = Tail(s_todo)
                          /\ UNCHANGED <<s_status, s_step>>
                     ELSE /\ s_hist' = s_hist \o asked
                          /\ s_step' = [NoStep EXCEPT !.phase = "xfer", !.size = size]
                          /\ UNCHANGED <<s_status, s_todo>>
            ELSE /\ s_hist' = s_hist \o asked
                 /\ s_step' = [NoStep EXCEPT !.phase = IF c.call = "raw_write" THEN "xfer" ELSE "info"]
                 /\ UNCHANGED <<s_status, s_todo>>
    /\ UNCHANGED <<StoreFixed, s_flash, s_out, s_ci>>

\* _raw_read: sinfo = self._get_storage_info(storage_id) and the tests on
\* offset and size
S_Info ==
    /\ s_status = "running"
    /\ s_step.phase = "info"
    /\ \E blocks \in (IF s_port THEN InfoReplies ELSE {IMAGE_BLOCK_COUNT}) :
        LET c == Head(s_todo)
            got == blocks # None
            storage_size == blocks * SLFS_BLOCK_SIZE
            size == IF got THEN ReadSize(c.a, c.n, storage_size) ELSE None
            info == IF s_port THEN <<SEv("INFO", c.sid, blocks, 0, <<>>, got)>> ELSE <<>>
        IN  IF size = None
            THEN /\ s_status' = "raised"
                 /\ s_hist' = s_hist \o info
                 /\ UNCHANGED <<s_todo, s_step>>
            ELSE IF size = 0
            THEN /\ s_hist' = s_hist \o info \o <<RetEv(c, <<>>)>>
                 /\ s_todo' = Tail(s_todo)
                 /\ s_step' = NoStep
                 /\ UNCHANGED s_status
            ELSE /\ s_hist' = s_hist \o info
                 /\ s_step' = [s_step EXCEPT !.phase = "xfer", !.size = size]
                 /\ UNCHANGED <<s_status, s_todo>>
    /\ UNCHANGED <<StoreFixed, s_flash, s_out, s_ci>>

\* _raw_write: one _send_chunk of the loop, a RAW_STORAGE_WRITE packet or a
\* seek and write on the output file
S_WriteChunk ==
    /\ s_status = "running"
    /\ s_step.phase = "xfer"
    /\ Head(s_todo).call = "raw_write"
    /\ LET c == Head(s_todo)
           len == RawWriteChunk(s_step.sent, c.n)
           chunk == DSlice(c.data, s_step.sent, s_step.sent + len)
           offset == c.a + s_step.sent
           last == s_step.sent + len >= c.n
           goes(ev) ==
               /\ s_hist' = s_hist \o <<ev>> \o (IF last THEN <<RetEv(c, <<>>)>> ELSE <<>>)
               /\ s_todo' = IF last THEN Tail(s_todo) ELSE s_todo
               /\ s_step' = IF last THEN NoStep ELSE [s_step EXCEPT !.sent = @ + len]
               /\ UNCHANGED s_status
       IN  IF s_port
           THEN \E acked \in BOOLEAN :
                   IF acked
                   THEN /\ goes(SEv("WRITE", c.sid, offset, len, chunk, TRUE))
                        /\ s_flash' = IF c.sid = STORAGE_ID_SFLASH
                                      THEN FileWrite(s_flash, offset, chunk)
                                      ELSE s_flash
                        /\ UNCHANGED s_out
                   ELSE /\ s_status' = "raised"
                        /\ s_hist' = Append(s_hist, SEv("WRITE", c.sid, offset, len, chunk, FALSE))
                        /\ UNCHANGED <<s_flash, s_out, s_todo, s_step>>
           ELSE IF s_hasout
           THEN /\ goes(SEv("FWRITE", c.sid, offset, len, chunk, TRUE))
                /\ s_out' = FileWrite(s_out, offset, chunk)
                /\ UNCHANGED s_flash
           ELSE s_status' = "raised" /\ UNCHANGED <<s_flash, s_out, s_todo, s_step, s_hist>>
    /\ UNCHANGED <<StoreFixed, s_ci>>

\* _raw_read: one _read_chunk of the loop, a RAW_STORAGE_READ packet and its
\* reply or a seek and read on the image file; at the end of the image file
\* the chunk is empty and the loop asks again
S_ReadChunk ==
    /\ s_status = "running"
    /\ s_step.phase = "xfer"
    /\ Head(s_todo).call = "raw_read"
    /\ LET c == Head(s_todo)
           size == ReadChunk(s_step.size, DLen(s_step.rx))
           offset == c.a + DLen(s_step.rx)
           goes(data, evs) ==
               LET rx == DCat(s_step.rx, data)
                   last == s_step.size - DLen(rx) <= 0
               IN  /\ s_hist' = s_hist \o evs \o (IF last THEN <<RetEv(c, rx)>> ELSE <<>>)
                   /\ s_todo' = IF last THEN Tail(s_todo) ELSE s_todo
                   /\ s_step' = IF last THEN NoStep ELSE [s_step EXCEPT !.rx = rx]
                   /\ UNCHANGED s_status
       IN  IF s_port
           THEN \E reply \in ReadReplies :
                   LET data == IF reply = "good" THEN FileRead(s_flash, offset, size)
                               ELSE IF reply = "short" THEN FileRead(s_flash, offset, size - 1)
                               ELSE <<>>
                       ok == reply # "none" /\ DLen(data) = size
                       ev == SEv("READ", c.sid, offset, size, data, ok)
                   IN  IF ok THEN goes(data, <<ev>>)
                       ELSE /\ s_status' = "raised"
                            /\ s_hist' = Append(s_hist, ev)
                            /\ UNCHANGED <<s_todo, s_step>>
           ELSE goes(FileRead(s_in, offset, size), <<>>)
    /\ UNCHANGED <<StoreFixed, s_flash, s_out, s_ci>>

SInit ==
    /\ port_timeout = TIMEOUT
    /\ LinkIdle
    /\ MainIdle
    /\ FatIdle
    /\ SplitIdle
    /\ s_port \in BOOLEAN
    /\ s_hasout \in (IF s_port THEN {FALSE} ELSE BOOLEAN)
    /\ s_flash = (IF s_port THEN Source("flash", FlashBlocks * SLFS_BLOCK_SIZE) ELSE <<>>)
    /\ s_in \in (IF s_port THEN {<<>>} ELSE {Source("in", n) : n \in InLens})
    /\ s_out = <<>>
    /\ s_cmds \in StoreCmdLists(s_port, s_hasout)
    /\ s_ci = 0
    /\ s_todo = <<>>
    /\ s_step = NoStep
    /\ s_hist = <<>>
    /\ s_status = "running"

SNext ==
    \/ S_Start
    \/ S_Erase
    \/ S_StorageInfo
    \/ S_Sink
    \/ S_List
    \/ S_Info
    \/ S_WriteChunk
    \/ S_ReadChunk

SpecStore == SInit /\ [][SNext]_vars

(***************************************************************************)
(* SpecFat: get_fat_info(inactive), a step for each read of the serial     *)
(* flash.  A FAT copy is [rev, sign, slots]: the two numbers of its first  *)
(* four bytes and the four bytes of each of its slots.  The names of the   *)
(* files are known by the place metadata block 2 is read from.             *)
(***************************************************************************)
FatSlots == 2   \* slots of a FAT copy that are scanned

SFFS_HEADER_SIGNATURE == 21324
SFFS_FAT_METADATA2_CC3200_OFFSET == 1908
SFFS_FAT_METADATA2_CC32XX_OFFSET == 8192
SFFS_FAT_METADATA2_LENGTH == 4096
SFFS_FAT_PART_OFFSET == 4096
FAT_TABLE_BLOCKS == 5

\* CC3x00SffsHeader without the test for an empty FAT
SffsHeaderSignOnly(fat_index, copy) ==
    [fat_index |-> fat_index,
     is_valid |-> copy.sign = SFFS_HEADER_SIGNATURE,
     fat_commit_revision |-> copy.rev,
     fat_bytes |-> copy.slots]

\* CC3x00SffsHeader(fat_index, fat_bytes, storage_info)
SffsHeader(fat_index, copy) ==
    [fat_index |-> fat_index,
     is_valid |-> ~(copy.rev = 65535 \/ copy.sign = 65535) /\ copy.sign = SFFS_HEADER_SIGNATURE,
     fat_commit_revision |-> copy.rev,
     fat_bytes |-> copy.slots]

\* fat_hdrs.sort(reverse=True, key=fat_commit_revision) of two headers: the
\* sort is stable
NewestFirstUnstable(hdrs) ==
    IF hdrs[2].fat_commit_revision >= hdrs[1].fat_commit_revision
    THEN <<hdrs[2], hdrs[1]>> ELSE hdrs

NewestFirst(hdrs) ==
    IF hdrs[2].fat_commit_revision > hdrs[1].fat_commit_revision
    THEN <<hdrs[2], hdrs[1]>> ELSE hdrs

\* the offset of metadata block 2 that get_fat_info reads
Metadata2Offset(device, hdr2_valid) ==
    (IF device = "cc32xx" THEN SFFS_FAT_METADATA2_CC32XX_OFFSET
     ELSE SFFS_FAT_METADATA2_CC3200_OFFSET)
    + (IF hdr2_valid THEN SFFS_FAT_PART_OFFSET ELSE 0)

\* CC3x00SffsInfo.__init__: the test for an empty slot
SlotEmptyCanonical(i, meta) ==
    meta = <<255, 255, 255, 255>> \/ meta = <<i, 255, i, 127>>

SlotEmpty(i, meta) ==
    meta = <<255, 255, 255, 255>> \/ meta = <<255, i, 255, 127>>

\* CC3x00SffsStatsFileEntry(i, start_block, size_blocks, mirrored, flags, fname)
\* of the slot i, whose bytes are index, size_blocks, start_block_lsb,
\* flags_sb_msb
StatsFileEntry(i, meta) ==
    LET flags == meta[4] \div 16
        start_block_msb == meta[4] % 16
        mirrored == (flags \div 4) % 2 = 0
    IN  [index |-> i,
         start_block |-> start_block_msb * 256 + meta[3],
         size_blocks |-> meta[2],
         mirrored |-> mirrored,
         flags |-> flags,
         total_blocks |-> IF mirrored THEN meta[2] * 2 ELSE meta[2]]

\* the scan of the slots i, i + 1, ...: the files, or the "incorrect FAT
\* entry" error
RECURSIVE ScanFrom(_, _)
ScanFrom(i, fat_bytes) ==
    IF i = FatSlots THEN [ok |-> TRUE, files |-> <<>>]
    ELSE LET meta == fat_bytes[i + 1]
         IN  IF SlotEmpty(i, meta) THEN ScanFrom(i + 1, fat_bytes)
             ELSE IF meta[1] # i THEN [ok |-> FALSE, files |-> <<>>]
             ELSE LET rest == ScanFrom(i + 1, fat_bytes)
                  IN  IF rest.ok
                      THEN [ok |-> TRUE, files |-> <<StatsFileEntry(i, meta)>> \o rest.files]
                      ELSE rest

\* occupied_block_snippets.sort(key=lambda e: e[0]), a stable sort
RECURSIVE InsertByStart(_, _)
InsertByStart(sorted, x) ==
    IF sorted = <<>> THEN <<x>>
    ELSE IF Head(sorted)[1] <= x[1] THEN <<Head(sorted)>> \o InsertByStart(Tail(sorted), x)
    ELSE <<x>> \o sorted

RECURSIVE SortByStart(_)
SortByStart(w) ==
    IF w = <<>> THEN <<>>
    ELSE InsertByStart(SortByStart(SubSeq(w, 1, Len(w) - 1)), w[Len(w)])

\* CC3x00SffsHole(start_block, size_blocks)
SffsHole(start_block, size_blocks) == [start_block |-> start_block, size_blocks |-> size_blocks]

\* the test of the sweep: snippet begins before the one before it ended
OverlapsNever(snippet, prev_end_block) == FALSE

Overlaps(snippet, prev_end_block) == snippet[1] < prev_end_block

\* the sweep over the sorted snippets: the holes, or the "overlapping entry"
\* error
RECURSIVE Sweep(_, _)
Sweep(snippets, prev_end_block) ==
    IF snippets = <<>> THEN [ok |-> TRUE, holes |-> <<>>]
    ELSE LET snippet == Head(snippets)
         IN  IF Overlaps(snippet, prev_end_block) THEN [ok |-> FALSE, holes |-> <<>>]
             ELSE LET rest == Sweep(Tail(snippets), snippet[1] + snippet[2])
                      hole == IF snippet[1] > prev_end_block
                              THEN <<SffsHole(prev_end_block, snippet[1] - prev_end_block - 1)>>
                              ELSE <<>>
                  IN  IF rest.ok THEN [ok |-> TRUE, holes |-> hole \o rest.holes] ELSE rest

RECURSIVE SumTotal(_)
SumTotal(files) ==
    IF files = <<>> THEN 0 ELSE Head(files).total_blocks + SumTotal(Tail(files))

\* the snippets before they are sorted: the FAT, the files in the order of
\* their slots, the end of the storage
OccupiedBlockSnippets(files, block_count) ==
    <<<<0, FAT_TABLE_BLOCKS>>>>
    \o [j \in 1..Len(files) |-> <<files[j].start_block, files[j].total_blocks>>]
    \o <<<<block_count, 0>>>>

\* CC3x00SffsInfo(fat_header, storage_info, meta2, device)
SffsInfo(fat_header, block_count) ==
    LET scan == ScanFrom(0, fat_header.fat_bytes)
        sweep == Sweep(SortByStart(OccupiedBlockSnippets(scan.files, block_count)), 0)
    IN  IF ~scan.ok THEN [error |-> "incorrect FAT entry"]
        ELSE IF ~sweep.ok THEN [error |-> "broken FAT: overlapping entry"]
        ELSE [error |-> "",
              fat_commit_revision |-> fat_header.fat_commit_revision,
              block_count |-> block_count,
              files |-> scan.files,
              used_blocks |-> FAT_TABLE_BLOCKS + SumTotal(scan.files),
              holes |-> sweep.holes]

\* what the serial flash may hold and report
BlockCounts == {10, IMAGE_BLOCK_COUNT}

FatHeads == {<<65535, 65535>>, <<1, SFFS_HEADER_SIGNATURE>>, <<2, SFFS_HEADER_SIGNATURE>>,
             <<1, 4660>>, <<65535, SFFS_HEADER_SIGNATURE>>}

\* slot i: never used; unused; the pattern <<i, 0xFF, i, 0x7F>>; a file of 2
\* blocks at block 5; a mirrored file of 2 blocks at block 7; a file at
\* block 3, inside the FAT; a mirrored file of 255 blocks at block
\* 1025 + 510 * i; a slot with the index of the next one
SlotChoices(i) ==
    {<<255, 255, 255, 255>>, <<255, i, 255, 127>>, <<i, 255, i, 127>>,
     <<i, 2, 5, 192>>, <<i, 2, 7, 128>>, <<i, 1, 3, 192>>,
     <<i, 255, (1025 + 510 * i) % 256, 128 + (1025 + 510 * i) \div 256>>,
     <<i + 1, 2, 5, 192>>}

RECURSIVE SlotListsFrom(_)
SlotListsFrom(i) ==
    IF i = FatSlots THEN {<<>>}
    ELSE {<<m>> \o rest : m \in SlotChoices(i), rest \in SlotListsFrom(i + 1)}

NoFiles == [i \in 1..FatSlots |-> <<255, 255, 255, 255>>]

OneFile == [i \in 1..FatSlots |-> IF i = 1 THEN <<0, 2, 5, 192>> ELSE <<255, 255, 255, 255>>]

FatCopy(head, slots) == [rev |-> head[1], sign |-> head[2], slots |-> slots]

NoFatOut == [meta2 |-> <<>>, selected |-> None, error |-> "", info |-> <<>>]

\* get_fat_info: sinfo = self._get_storage_info(storage_id=STORAGE_ID_SFLASH)
G_StorageInfo ==
    /\ f_pc = "sinfo"
    /\ \E block_count \in BlockCounts : f_in' = [f_in EXCEPT !.block_count = block_count]
    /\ f_pc' = "fat"
    /\ UNCHANGED <<port_timeout, linkVars, mainVars, storeVars, splitVars, f_out>>

\* get_fat_info: the read of the two FAT copies
G_ReadFat ==
    /\ f_pc = "fat"
    /\ \E h1 \in FatHeads, h2 \in FatHeads, s1 \in SlotListsFrom(0), s2 \in {NoFiles, OneFile} :
          f_in' = [f_in EXCEPT !.fat = <<FatCopy(h1, s1), FatCopy(h2, s2)>>]
    /\ f_pc' = "meta2"
    /\ UNCHANGED <<port_timeout, linkVars, mainVars, storeVars, splitVars, f_out>>

\* get_fat_info: the two headers, the read of metadata block 2, the choice
\* of the FAT and its parsing
G_Meta2 ==
    /\ f_pc = "meta2"
    /\ LET fat_hdr1 == SffsHeader(0, f_in.fat[1])
           fat_hdr2 == SffsHeader(1, f_in.fat[2])
           fat_hdrs == (IF fat_hdr1.is_valid THEN <<fat_hdr1>> ELSE <<>>)
                       \o (IF fat_hdr2.is_valid THEN <<fat_hdr2>> ELSE <<>>)
           sorted == IF Len(fat_hdrs) > 1 THEN NewestFirst(fat_hdrs) ELSE fat_hdrs
           fat_hdr == IF f_in.inactive THEN sorted[2] ELSE sorted[1]
           metadata2_offset == Metadata2Offset(f_in.device, fat_hdr2.is_valid)
           meta2 == <<metadata2_offset, metadata2_offset + SFFS_FAT_METADATA2_LENGTH>>
       IN  IF fat_hdrs = <<>>
           THEN /\ f_out' = [f_out EXCEPT !.meta2 = meta2, !.error = "no valid fat tables found"]
                /\ f_pc' = "raised"
           ELSE IF f_in.inactive /\ Len(fat_hdrs) = 1
           THEN /\ f_out' = [f_out EXCEPT !.meta2 = meta2,
                                         !.error = "no valid inactive fat table found"]
                /\ f_pc' = "raised"
           ELSE LET info == SffsInfo(fat_hdr, f_in.block_count)
                IN  /\ f_out' = [meta2 |-> meta2, selected |-> fat_hdr.fat_index,
                                 error |-> info.error, info |-> info]
                    /\ f_pc' = IF info.error = "" THEN "done" ELSE "raised"
    /\ UNCHANGED <<port_timeout, linkVars, mainVars, storeVars, splitVars, f_in>>

\* the local files and --file-size of a raw write_file: <<size, file_len>>
RawWriteArgs == {<<0, 5>>, <<0, 2 * SLFS_BLOCK_SIZE - 9>>, <<0, 2 * SLFS_BLOCK_SIZE - 7>>,
                 <<2 * SLFS_BLOCK_SIZE, 5>>}

\* _write_file_raw: the loop over fat_info.files with a file id; <<>> stands
\* for filefinfo = None
RECURSIVE FileOfId(_, _)
FileOfId(files, file_id) ==
    IF files = <<>> THEN <<>>
    ELSE IF Head(files).index = file_id THEN <<Head(files)>>
    ELSE FileOfId(Tail(files), file_id)

\* _write_file_raw: fatfs_offset
FatfsOffsetOfIndex(filefinfo) == filefinfo.index * SLFS_BLOCK_SIZE

FatfsOffset(filefinfo) == filefinfo.start_block * SLFS_BLOCK_SIZE

\* _write_file_raw(local_file, cc_filename, file_id, ...) after its
\* get_fat_info(inactive=False, extended=True) has returned: the offset and
\* the length of the data of its two _raw_write calls, in order
G_WriteFileRaw ==
    /\ f_pc = "done"
    /\ ~f_in.inactive
    /\ \E file_id \in 0..FatSlots, a \in RawWriteArgs :
          LET size == a[1]
              file_len == a[2]
              filefinfo == FileOfId(f_out.info.files, file_id)
              fatfs_offset == FatfsOffset(filefinfo[1])
              raw == [file_id |-> file_id, size |-> size, file_len |-> file_len,
                      filefinfo |-> filefinfo, writes |-> <<>>]
          IN  IF filefinfo = <<>>
              THEN /\ f_out' = [f_out EXCEPT !.error = "not found, but only overwriting is supported"]
                                @@ [raw |-> raw]
                   /\ f_pc' = "raw_raised"
              ELSE IF RawBlocks(size, file_len) > filefinfo[1].size_blocks
              THEN /\ f_out' = [f_out EXCEPT !.error = "is too big"] @@ [raw |-> raw]
                   /\ f_pc' = "raw_raised"
              ELSE /\ f_out' = f_out @@
                                [raw |-> [raw EXCEPT !.writes =
                                              <<<<fatfs_offset, SFFS_FAT_FILE_HEADER_SIZE>>,
                                                <<SFFS_FAT_FILE_HEADER_SIZE + fatfs_offset,
                                                  file_len>>>>]]
                   /\ f_pc' = "raw_written"
    /\ UNCHANGED <<port_timeout, linkVars, mainVars, storeVars, splitVars, f_in>>

\* how a call of read_file ends: it returns, it raises (CC3200Error, or any
\* other Exception of the port or of the local file), or it does not return
\* (_raw_read at the end of a short image file)
ReadOutcomes == {"returned", "raised", "hung"}

\* read_all_files: where the loop goes after read_file, with the handler
\* "except Exception as ex: log.error(...)"
AfterReadUncaught(outcome) ==
    IF outcome = "returned" THEN "reading" ELSE IF outcome = "raised" THEN "raw_raised" ELSE "hung"

AfterRead(outcome) == IF outcome = "hung" THEN "hung" ELSE "reading"

\* read_all_files(local_dir, by_file_id) after its get_fat_info(inactive=False)
\* has returned: print_sffs_info, and the loop is entered
G_ReadAllFiles ==
    /\ f_pc = "done"
    /\ ~f_in.inactive
    /\ f_out' = f_out @@ [attempts |-> <<>>]
    /\ f_pc' = IF f_out.info.files = <<>> THEN "all_read" ELSE "reading"
    /\ UNCHANGED <<port_timeout, linkVars, mainVars, storeVars, splitVars, f_in>>

\* read_all_files: one pass of "for f in fat_info.files", the call of
\* read_file for f inside try
G_ReadOne ==
    /\ f_pc = "reading"
    /\ \E outcome \in ReadOutcomes :
          LET f == f_out.info.files[Len(f_out.attempts) + 1]
              attempts == Append(f_out.attempts, [index |-> f.index, outcome |-> outcome])
              next == AfterRead(outcome)
          IN  /\ f_out' = [f_out EXCEPT !.attempts = attempts]
              /\ f_pc' = IF next = "reading" /\ Len(attempts) = Len(f_out.info.files)
                         THEN "all_read"
                         ELSE next
    /\ UNCHANGED <<port_timeout, linkVars, mainVars, storeVars, splitVars, f_in>>

FInit ==
    /\ port_timeout = TIMEOUT
    /\ LinkIdle
    /\ MainIdle
    /\ StoreIdle
    /\ SplitIdle
    /\ f_pc = "sinfo"
    /\ f_in \in [device : {"cc3200", "cc32xx"}, inactive : BOOLEAN, block_count : {0},
                 fat : {<<>>}]
    /\ f_out = NoFatOut

FNext ==
    \/ G_StorageInfo
    \/ G_ReadFat
    \/ G_Meta2
    \/ G_WriteFileRaw
    \/ G_ReadAllFiles
    \/ G_ReadOne

SpecFat == FInit /\ [][FNext]_vars

(***************************************************************************)
(* split_argv (SpecArgv)                                                   *)
(*                                                                         *)
(* A command line is a sequence of tokens.  split_argv is a generator; the *)
(* model collects what it yields into one sequence, in the order yielded.  *)
(***************************************************************************)
MaxArgs == 4

\* subparsers.choices: the names given to subparsers.add_parser.
SubparserChoices ==
    {"format_flash", "erase_file", "write_file", "read_file", "write_flash", "read_flash",
     "list_filesystem", "read_all_files", "write_all_files"}

\* The tokens the command lines of the model are made of.
ArgvTokens == {"write_file", "read_file", "--file-size", "-p"}

RECURSIVE ArgvsUpTo(_)
ArgvsUpTo(n) ==
    IF n = 0 THEN {<<>>}
    ELSE LET shorter == ArgvsUpTo(n - 1)
         IN  shorter \cup {Append(a, x) : a \in {b \in shorter : Len(b) = n - 1}, x \in ArgvTokens}

\* The loop of split_argv over the tokens left, and the yield after it.
RECURSIVE SplitLoopOneGroup(_, _, _, _)
SplitLoopOneGroup(rest, args, have_cmd, yielded) ==
    IF rest = <<>>
    THEN IF args # <<>> THEN Append(yielded, args) ELSE yielded
    ELSE SplitLoopOneGroup(Tail(rest), Append(args, Head(rest)), have_cmd, yielded)

RECURSIVE SplitLoop(_, _, _, _)
SplitLoop(rest, args, have_cmd, yielded) ==
    IF rest = <<>>
    THEN IF args # <<>> THEN Append(yielded, args) ELSE yielded
    ELSE LET x == Head(rest)
         IN  IF x \in SubparserChoices
             THEN IF have_cmd
                  THEN SplitLoop(Tail(rest), <<x>>, TRUE, Append(yielded, args))
                  ELSE SplitLoop(Tail(rest), Append(args, x), TRUE, yielded)
             ELSE SplitLoop(Tail(rest), Append(args, x), have_cmd, yielded)

split_argv(args) == SplitLoop(args, <<>>, FALSE, <<>>)

\* list(split_argv(cmdline_args)).
A_SplitArgv ==
    /\ a_pc = "call"
    /\ a_groups' = split_argv(cmdline_args)
    /\ a_pc' = "done"
    /\ UNCHANGED <<port_timeout, linkVars, mainVars, storeVars, fatVars, cmdline_args>>

AInit ==
    /\ port_timeout = TIMEOUT
    /\ LinkIdle
    /\ MainIdle
    /\ StoreIdle
    /\ FatIdle
    /\ a_pc = "call"
    /\ cmdline_args \in ArgvsUpTo(MaxArgs)
    /\ a_groups = <<>>

ANext ==
    \/ A_SplitArgv

SpecArgv == AInit /\ [][ANext]_vars

(***************************************************************************)
(* Claims about the framing layer (checked under SpecLink)                 *)
(***************************************************************************)
\* The ACK pair 00 CC occurs in the stream s.
AckSeen(s) == \E i \in 1..(Len(s) - 1) : s[i] = 0 /\ s[i + 1] = 204

\* C1: for every non-empty payload P, _send_packet writes exactly
\* len_be16(len(P)+2) | sum(P) mod 256 | P; it returns normally only if the
\* ACK pair 00 CC was received and raises when a read times out before it.
C1_SendPacketFraming ==
    (l_op = "send_packet" /\ Len(l_payload) > 0) =>
        /\ Len(l_tx) = Len(l_payload) + 3
        /\ \A i \in 1..3 : l_tx[i] \in 0..255
        /\ l_tx[1] * 256 + l_tx[2] = Len(l_payload) + 2
        /\ (Sum(l_payload) - l_tx[3]) % 256 = 0
        /\ SubSeq(l_tx, 4, Len(l_tx)) = l_payload
        /\ (l_ok <=> AckSeen(l_rx))

\* C1 witness: a payload whose length word and byte sum both exceed one
\* byte was sent and acknowledged.
C1_Witness ==
    /\ l_op = "send_packet"
    /\ l_ok
    /\ Len(l_payload) + 2 > 255
    /\ Sum(l_payload) > 255

\* What _read_packet is given: a full header, the body length it announces,
\* a full body, a matching checksum.
RxFullHeader == Len(l_rx) >= 3
RxBodyLen == l_rx[1] * 256 + l_rx[2] - 2
RxFullBody == RxBodyLen >= 0 /\ Len(l_rx) - 3 >= RxBodyLen
RxBody == SubSeq(l_rx, 4, 3 + RxBodyLen)
RxCsumOk == Sum(RxBody) % 256 = l_rx[3]

\* C2: _read_packet sends the ACK 00 CC if and only if it read the full
\* 3-byte header, exactly len-2 body bytes, and the body's byte sum mod 256
\* equals the header checksum; otherwise it raises, returns no payload and
\* writes nothing.
C2_ReadPacketAck ==
    (l_op = "read_packet") =>
        /\ (l_tx = ACK <=> (RxFullHeader /\ RxFullBody /\ RxCsumOk))
        /\ (l_ok <=> l_tx = ACK)
        /\ (l_ok => l_data = RxBody)
        /\ (~l_ok => (l_data = <<>> /\ l_tx = <<>>))

\* C2 witness: header and body arrived in full, the checksum did not match,
\* and the call raised without writing an ACK.
C2_Witness ==
    /\ l_op = "read_packet"
    /\ RxFullHeader /\ RxFullBody /\ ~RxCsumOk
    /\ ~l_ok
    /\ l_tx = <<>>

\* The stream differs from the frame f in exactly the byte at position i.
ChangedAt(f, s, i) ==
    /\ Len(s) = Len(f)
    /\ i \in 1..Len(f)
    /\ s[i] # f[i]
    /\ \A j \in 1..Len(f) : j # i => s[j] = f[j]

OneByteChanged(f, s) == \E i \in 1..Len(f) : ChangedAt(f, s, i)

\* C3 (as claimed): changing any single byte of a frame makes _read_packet
\* raise.
C3_AnyMutationDetected ==
    (l_op = "read_packet" /\ OneByteChanged(Frame(l_payload), l_rx)) => ~l_ok

\* C3 (amended): fed a frame with one byte changed and nothing after it,
\* _read_packet raises when the changed byte is the checksum or a payload
\* byte; when it is a length byte, _read_packet raises unless the new length
\* word n satisfies 2 <= n < len(P)+2 and the first n-2 payload bytes sum to
\* the checksum mod 256, in which case it returns those n-2 bytes.
C3_MutationDetection ==
    (l_op = "read_packet") =>
        \A i \in 1..Len(Frame(l_payload)) :
            ChangedAt(Frame(l_payload), l_rx, i) =>
                LET n == l_rx[1] * 256 + l_rx[2]
                    cut == SubSeq(l_payload, 1, n - 2)
                    passes == /\ i <= 2
                              /\ n >= 2
                              /\ n < Len(l_payload) + 2
                              /\ Sum(cut) % 256 = Sum(l_payload) % 256
                IN  /\ (l_ok <=> passes)
                    /\ (l_ok => l_data = cut)

\* C3 witness: a payload byte was changed and the call raised.
C3_Witness ==
    /\ l_op = "read_packet"
    /\ \E i \in 4..Len(Frame(l_payload)) : ChangedAt(Frame(l_payload), l_rx, i)
    /\ ~l_ok

\* C4 (as claimed): the status is byte 3 of the 4-byte GET_LAST_STATUS
\* response, and the operation counts as successful iff that byte is 0x40.
C4_StatusIsByte3 ==
    (l_op = "get_last_status" /\ l_ok /\ Len(l_data) = 4) =>
        /\ l_n = l_data[4]
        /\ (IsOk(l_n) <=> l_data[4] = 64)

\* C8: _try_breaking sends a BREAK and waits for the ACK pair, at most
\* `tries` times; it stops at the first attempt that is acknowledged and
\* raises exactly when all `tries` attempts ended without an ACK.
C8_TryBreaking ==
    (l_op = "try_breaking") =>
        /\ l_n \in 1..l_tries
        /\ (l_ok <=> \E i \in 1..l_tries : AckSeen(l_rx[i]))
        /\ (l_ok => (AckSeen(l_rx[l_n]) /\ \A j \in 1..(l_n - 1) : ~AckSeen(l_rx[j])))
        /\ (~l_ok => (l_n = l_tries /\ \A j \in 1..l_tries : ~AckSeen(l_rx[j])))

\* C8 witness: with tries = 5 the third BREAK was acknowledged and no
\* fourth was sent, although the device would have acknowledged it too.
C8_Witness ==
    /\ l_op = "try_breaking"
    /\ l_tries = 5
    /\ l_args = <<>>
    /\ l_ok
    /\ l_n = 3
    /\ AckSeen(l_rx[4])

(***************************************************************************)
(* Claims about a run of main()                                            *)
(***************************************************************************)
\* The operations issued for command k (0: bring-up), and their names
EventsOf(k) == SelectSeq(wire, LAMBDA e : e.k = k)

Ops(w) == [i \in 1..Len(w) |-> w[i].op]

IsPrefix(a, b) == Len(a) <= Len(b) /\ \A i \in 1..Len(a) : a[i] = b[i]

Repeat(x, n) == [i \in 1..n |-> x]

\* A run against a device that reports itself as CC3200-class with
\* bootloader[1] >= 4 whenever its version has been read
Live == ~image_file

CC3200Modern ==
    /\ Live
    /\ vinfo # NoVinfo => IsCC3200(vinfo)
    /\ sw_vinfo # NoVinfo => IsCC3200(sw_vinfo) /\ sw_vinfo.bootloader[2] >= 4

\* Every operation but the last one of the run succeeded
FailureIsLast == \A i \in 1..Len(wire) : ~wire[i].ok => i = Len(wire) /\ pc = "end" /\ status # "done"

HelperChunks == CeilDiv(dll_len, RAW_WRITE_CHUNK)

\* The bring-up as the specification lists it
ClaimedBringUp ==
    <<"FLUSH_INPUT", "RESET", "BREAK_IN", "GET_VERSION_INFO", "SWITCH_2_APPS",
      "BREAK_IN", "GET_VERSION_INFO">>
    \o Repeat("RAW_STORAGE_WRITE", HelperChunks)
    \o <<"EXEC_FROM_RAM", "READ_ACK">>

\* The bring-up as the port sees it: switch_to_nwp_bootloader reads the
\* version again before SWITCH_2_APPS, and _raw_write asks for the storage
\* list before the first RAW_STORAGE_WRITE
ActualBringUp ==
    <<"FLUSH_INPUT", "RESET", "BREAK_IN", "GET_VERSION_INFO", "GET_VERSION_INFO",
      "SWITCH_2_APPS", "BREAK_IN", "GET_VERSION_INFO", "GET_STORAGE_LIST">>
    \o Repeat("RAW_STORAGE_WRITE", HelperChunks)
    \o <<"EXEC_FROM_RAM", "READ_ACK">>

\* The arguments of the bring-up operations: reset with SOP2 asserted, the
\* clock constant, and the helper image to SRAM from offset 0 in chunks
BringUpArgs(w) ==
    \A i \in 1..Len(w) :
        /\ w[i].op = "RESET" => w[i].a = 1
        /\ w[i].op = "SWITCH_2_APPS" => w[i].a = 26666667
        /\ w[i].op = "RAW_STORAGE_WRITE" =>
             LET j == Cardinality({h \in 1..i : w[h].op = "RAW_STORAGE_WRITE"})
             IN  /\ w[i].a = 0
                 /\ w[i].b = 4080 * (j - 1)
                 /\ w[i].c = IF j < HelperChunks THEN 4080 ELSE dll_len - 4080 * (j - 1)

BringUpFollows(expected) ==
    CC3200Modern =>
        LET w == EventsOf(0)
        IN  /\ IsPrefix(Ops(w), expected)
            /\ BringUpArgs(w)
            /\ FailureIsLast
            /\ (ci >= 1 \/ pc = "cmd") => Len(w) = Len(expected) /\ vinfo_apps # NoVinfo
            /\ Len(wire) > Len(w) => Len(w) = Len(expected)

\* C5 as stated: on a CC3200-class device with bootloader[1] >= 4 the
\* bring-up puts on the wire, in this order and nothing else, flush, reset
\* with SOP2, break-in, GET_VERSION_INFO, SWITCH_2_APPS(26666667), break-in,
\* GET_VERSION_INFO, RAW_STORAGE_WRITE of the helper, EXEC_FROM_RAM and one
\* more ACK; a failing step is the last one and no subcommand runs.
C5_BringUpAsListed == BringUpFollows(ClaimedBringUp)

\* C5 amended: the same, with GET_VERSION_INFO issued a second time before
\* SWITCH_2_APPS and GET_STORAGE_LIST issued before the RAW_STORAGE_WRITE
\* chunks (of at most 4080 bytes each, at offsets 0, 4080, ...).
C5_BringUpOrder == BringUpFollows(ActualBringUp)

C5_Witness ==
    /\ CC3200Modern
    /\ sw_vinfo # NoVinfo
    /\ ci >= 1
    /\ HelperChunks = 2
    /\ Ops(EventsOf(0)) = ActualBringUp

HasOp(op) == \E i \in 1..Len(wire) : wire[i].op = op

\* C6: when the version switch_to_nwp_bootloader reads says CC3200-class
\* with bootloader[1] < 4, the run ends there with the unsupported-device
\* error, and SWITCH_2_APPS, RAW_STORAGE_WRITE and EXEC_FROM_RAM are never
\* sent, nor is any subcommand started.
C6_OldBootloaderRefused ==
    (sw_vinfo # NoVinfo /\ IsCC3200(sw_vinfo) /\ sw_vinfo.bootloader[2] < 4) =>
        /\ pc = "end"
        /\ status = "unsupported"
        /\ ~HasOp("SWITCH_2_APPS")
        /\ ~HasOp("RAW_STORAGE_WRITE")
        /\ ~HasOp("EXEC_FROM_RAM")
        /\ ci = 0
        /\ wire[Len(wire)].op = "GET_VERSION_INFO"

C6_Witness ==
    /\ sw_vinfo # NoVinfo
    /\ IsCC3200(sw_vinfo)
    /\ sw_vinfo.bootloader[2] = 3
    /\ status = "unsupported"

\* connect() is the first thing done on the port, and is done once
ConnectFirstAndOnce ==
    /\ wire # <<>> => wire[1].op = "FLUSH_INPUT"
    /\ \A i \in 1..Len(wire) :
        /\ wire[i].op = "FLUSH_INPUT" => i = 1
        /\ (wire[i].op = "RESET" /\ wire[i].a = 1) => i = 2

\* switch_to_nwp_bootloader has put something on the port
SwitchStarted == Len(EventsOf(0)) > 4

\* switch_to_nwp_bootloader has returned normally
SwitchDone ==
    /\ sw_vinfo # NoVinfo
    /\ IsCC3200(sw_vinfo) =>
         LET w == EventsOf(0) IN w[Len(w)].op = "READ_ACK" /\ w[Len(w)].ok

\* the switch runs only after a successful connect on a CC3200-class part
SwitchOnlyOnCC3200 ==
    (SwitchStarted \/ sw_vinfo # NoVinfo) => vinfo # NoVinfo /\ IsCC3200(vinfo)

\* a subcommand is started only after connect and, on CC3200-class parts,
\* the switch have completed
CommandsAfterBringUp ==
    (\E k \in 1..ci : cmds[k].cmd # "none") =>
        vinfo # NoVinfo /\ (IsCC3200(vinfo) => SwitchDone)

\* reboot_to_app is the last thing done on the port, and is done when requested
RebootLast ==
    /\ \A i \in 1..Len(wire) :
        (wire[i].op = "RESET" /\ wire[i].a = 0) =>
            i = Len(wire) /\ reboot_to_app /\ status = "done" /\ ci = Len(cmds)
    /\ (status = "done" /\ reboot_to_app /\ Live) =>
            wire[Len(wire)].op = "RESET" /\ wire[Len(wire)].a = 0

\* C7 as stated: connect once and first; the switch only after a successful
\* connect and only on CC3200-class parts; no subcommand before connect and,
\* on CC3200-class parts, the switch have completed; reboot_to_app last.
C7_LifecycleAlways ==
    /\ ConnectFirstAndOnce
    /\ SwitchOnlyOnCC3200
    /\ CommandsAfterBringUp
    /\ RebootLast

\* C7 amended: the same for a run on a live device; with an image file the
\* subcommands run without any connect.
C7_Lifecycle ==
    /\ ConnectFirstAndOnce
    /\ SwitchOnlyOnCC3200
    /\ Live => CommandsAfterBringUp
    /\ RebootLast
    /\ ~Live => wire = <<>>

C7_Witness ==
    /\ Live
    /\ status = "done"
    /\ reboot_to_app
    /\ IsCC3200(vinfo)
    /\ IsCC3200(sw_vinfo)
    /\ ci = 2
    /\ wire[Len(wire)].op = "RESET"

\* C9 as stated: when send_packet or read_packet is given a timeout, the
\* port's timeout after the call, whether it returned or raised, is the one
\* it had before the call.
C9_TimeoutScoped ==
    (l_op \in {"send_packet", "read_packet"}) => port_timeout = l_t0

\* The subcommand k is a write_file through the API with something to upload
ApiWrite(k) == cmds[k].cmd = "write_file" /\ cmds[k].file_len > 0 /\ UseApi(k)

FileChunks(k) == CeilDiv(cmds[k].file_len, 4096)

\* GET_FILE_INFO number i of w said that the file exists
SaidExists(w, i) ==
    Len(w) >= i /\ w[i].op = "GET_FILE_INFO" /\ w[i].ok /\ w[i].a = 1

UploadOps(k) ==
    <<"START_UPLOAD">>
    \o [i \in 1..(2 * FileChunks(k)) |-> IF i % 2 = 1 THEN "FILE_CHUNK" ELSE "GET_LAST_STATUS"]
    \o <<"FINISH_UPLOAD", "GET_LAST_STATUS">>

\* write_file as the specification lists it
ClaimedWrite(k, w) ==
    <<"GET_FILE_INFO">>
    \o (IF SaidExists(w, 1) THEN <<"ERASE_FILE">> ELSE <<>>)
    \o UploadOps(k)

\* write_file as the port sees it: erase_file asks for the file info again,
\* erases if the file is still there, and reads the status of the erase
ActualWrite(k, w) ==
    <<"GET_FILE_INFO">>
    \o (IF ~SaidExists(w, 1) THEN <<>>
        ELSE IF ~SaidExists(w, 2) THEN <<"GET_FILE_INFO">>
        ELSE <<"GET_FILE_INFO", "ERASE_FILE", "GET_LAST_STATUS">>)
    \o UploadOps(k)

\* The chunks are at offsets 0, 4096, ... and carry the file in that order,
\* at most 4096 bytes each; FINISH_UPLOAD carries 256 bytes, 0x46 if unsigned
WriteArgs(k, w) ==
    \A i \in 1..Len(w) :
        /\ w[i].op = "FILE_CHUNK" =>
             LET j == Cardinality({h \in 1..i : w[h].op = "FILE_CHUNK"})
             IN  /\ w[i].a = 4096 * (j - 1)
                 /\ w[i].b <= 4096
                 /\ w[i].b = IF j < FileChunks(k) THEN 4096
                             ELSE cmds[k].file_len - 4096 * (j - 1)
        /\ w[i].op = "FINISH_UPLOAD" =>
             /\ w[i].a = 256
             /\ cmds[k].sig_len = NoSignature => w[i].b = 70
        /\ (w[i].op = "GET_LAST_STATUS" /\ i < Len(w)) => w[i].a = 64

\* write_file number k has returned
Returned(k) == ci > k \/ (ci = k /\ pc \in {"cmd", "after", "reboot"}) \/ status = "done"

WriteFollows(k, expected) ==
    LET w == EventsOf(k)
    IN  /\ IsPrefix(Ops(w), expected)
        /\ WriteArgs(k, w)
        /\ FailureIsLast
        /\ Returned(k) => Len(w) = Len(expected)

\* C10 as stated: an API write_file puts on the wire, in this order and
\* nothing else, GET_FILE_INFO, ERASE_FILE if the file exists, START_UPLOAD,
\* FILE_CHUNK at 0, 4096, ... of at most 4096 bytes each followed by
\* GET_LAST_STATUS, FINISH_UPLOAD with the 256-byte signature (0x46 * 256
\* when unsigned) and GET_LAST_STATUS.
C10_WriteAsListed ==
    \A k \in 1..ci : ApiWrite(k) /\ Live => WriteFollows(k, ClaimedWrite(k, EventsOf(k)))

\* C10 amended: the same for a non-empty local file, with the second
\* GET_FILE_INFO and the GET_LAST_STATUS of erase_file when the file exists;
\* a signature file shorter than 256 bytes ends the run before FINISH_UPLOAD,
\* and an empty local file puts nothing on the wire.
C10_WriteOrder ==
    \A k \in 1..ci :
        /\ ApiWrite(k) /\ Live =>
             /\ WriteFollows(k, ActualWrite(k, EventsOf(k)))
             /\ (cmds[k].sig_len # NoSignature /\ cmds[k].sig_len < 256) =>
                  ~Returned(k) /\ \A i \in 1..Len(wire) : wire[i].op # "FINISH_UPLOAD"
        /\ (cmds[k].cmd = "write_file" /\ cmds[k].file_len = 0) => EventsOf(k) = <<>>

C10_Witness ==
    \E k \in 1..ci :
        /\ ApiWrite(k)
        /\ Live
        /\ Returned(k)
        /\ FileChunks(k) = 2
        /\ cmds[k].file_len = 4097
        /\ SaidExists(EventsOf(k), 2)
        /\ Ops(EventsOf(k)) = ActualWrite(k, EventsOf(k))

\* The status read at position i of the wire follows a FILE_CHUNK and is not OK
BadChunkStatus(i) ==
    /\ i > 1
    /\ wire[i].op = "GET_LAST_STATUS"
    /\ wire[i - 1].op = "FILE_CHUNK"
    /\ ~wire[i].ok \/ wire[i].a # 64

\* C11: when the status read after a FILE_CHUNK is not OK the upload stops
\* at once: the run ends with an error and nothing, in particular no
\* FILE_CHUNK and no FINISH_UPLOAD, is sent after that status read.
C11_BadChunkStops ==
    \A i \in 1..Len(wire) :
        BadChunkStatus(i) => i = Len(wire) /\ pc = "end" /\ status = "raised"

C11_Witness ==
    /\ Len(wire) > 1
    /\ BadChunkStatus(Len(wire))
    /\ wire[Len(wire)].ok
    /\ wire[Len(wire) - 1].a = 4096
    /\ status = "raised"

\* The flags word of START_UPLOAD for an allocation of n bytes: access mode 3
\* in bits 12-15, the first class of [256, 1024, 4096, 16384, 65536] that
\* holds n in 255 blocks in bits 8-11, the block count in bits 0-7, and the
\* file flags from bit 16 up
ClassSizes == <<256, 1024, 4096, 16384, 65536>>

ClassOf(n) == CHOOSE i \in 1..5 : ClassSizes[i] * 255 >= n /\ \A j \in 1..(i - 1) : ClassSizes[j] * 255 < n

BlocksOf(n) == (n + ClassSizes[ClassOf(n)] - 1) \div ClassSizes[ClassOf(n)]

FlagsFor(n, fileflags) == 3 * 4096 + (ClassOf(n) - 1) * 256 + BlocksOf(n) + fileflags * 65536

\* The file flags of command k: COMMIT with --commit-flag,
\* COMMIT | SECURE | PUBLIC_WRITE with a signature
FileFlagsOf(k) ==
    IF cmds[k].sig_len # NoSignature THEN 35
    ELSE IF cmds[k].commit_flag THEN 1
    ELSE 0

HasCommit(k) == FileFlagsOf(k) % 2 = 1

UserMax(k) == IF cmds[k].size > cmds[k].file_len THEN cmds[k].size ELSE cmds[k].file_len

StartUploadUses(doubling) ==
    \A i \in 1..Len(wire) :
        wire[i].op = "START_UPLOAD" /\ cmds[wire[i].k].cmd = "write_file" =>
            LET k == wire[i].k
                n == IF doubling /\ HasCommit(k) THEN 2 * UserMax(k) ELSE UserMax(k)
            IN  wire[i].a = FlagsFor(n, FileFlagsOf(k))

\* C12 as stated: the class and block count in the START_UPLOAD flags are
\* those of max(user_size, file_len), doubled when the COMMIT flag is set.
C12_AllocDoubledInFlags == StartUploadUses(TRUE)

\* C12 amended: the class and block count in the START_UPLOAD flags are those
\* of max(user_size, file_len), whether or not the COMMIT flag is set.
C12_AllocInFlags == StartUploadUses(FALSE)

C12_Witness ==
    \E i \in 1..Len(wire) :
        /\ wire[i].op = "START_UPLOAD"
        /\ wire[i].ok
        /\ HasCommit(wire[i].k)
        /\ cmds[wire[i].k].commit_flag
        /\ wire[i].a = FlagsFor(4097, 1)

\* C13: for every file_len >= 1 that fits, _open_file_for_write sends one
\* START_UPLOAD whose flags carry the smallest class i with
\* bsize[i] * 255 >= file_len in bits 8-11 and ceil(file_len / bsize[i]),
\* a value in 1..255, in bits 0-7; for file_len > 65536 * 255 it fails and
\* sends nothing.
C13_BlockClass ==
    l_op = "open_file_for_write" =>
        LET n == l_args[1]
        IN  IF n > 65536 * 255
            THEN ~l_ok /\ l_tx = <<>>
            ELSE /\ Len(l_tx) >= 8
                 /\ l_tx[4] = 33
                 /\ l_tx[7] \div 16 = 3
                 /\ l_tx[7] % 16 = ClassOf(n) - 1
                 /\ l_tx[8] = BlocksOf(n)
                 /\ BlocksOf(n) \in 1..255
                 /\ l_tx[6] = (IF l_args[2] = -1 THEN 0 ELSE l_args[2])
                 /\ l_tx[5] = 0

C13_Witness ==
    /\ l_op = "open_file_for_write"
    /\ l_args[1] = 1024 * 255 + 1
    /\ l_ok
    /\ l_tx[7] % 16 = 2
    /\ l_tx[8] = 64

(***************************************************************************)
(* Claims about the storage layer (checked under SpecStore)                *)
(***************************************************************************)
MediaOps == {"ERASE", "WRITE", "FWRITE"}

IsWrite(e) == e.op \in {"WRITE", "FWRITE"}

\* what command k has done to a medium so far
MediaEventsOf(k) == SelectSeq(s_hist, LAMBDA e : e.k = k /\ e.op \in MediaOps)

\* the content c of a medium after the acknowledged operations of w on it
RECURSIVE Applied(_, _)
Applied(c, w) ==
    IF w = <<>> THEN c
    ELSE LET e == Head(w)
             d == IF ~e.ok \/ e.sid # STORAGE_ID_SFLASH THEN c
                  ELSE IF e.op = "ERASE" THEN Erased(c, e.a, e.n)
                  ELSE IF IsWrite(e) \/ e.op = "COPY" THEN FileWrite(c, e.a, e.data)
                  ELSE c
         IN  Applied(d, Tail(w))

FromGang(d) == \E i \in 1..Len(d) : d[i].src = "gang"

\* with erase, the first thing write_flash does to the flash is one
\* RAW_STORAGE_ERASE of ceil(len/4096) blocks from block 0, and nothing is
\* written unless it was acknowledged
EraseFirst(k) ==
    LET w == MediaEventsOf(k)
    IN  s_cmds[k].erase /\ w # <<>> =>
            /\ w[1].op = "ERASE"
            /\ w[1].sid = STORAGE_ID_SFLASH
            /\ w[1].a = 0
            /\ w[1].n = CeilDiv(s_cmds[k].len, 4096)
            /\ \A i \in 2..Len(w) : w[1].ok /\ IsWrite(w[i])

\* a write below offset 8 is the write of data[:8] at 0, it is the last
\* thing done to the medium, and the writes before it have put data[8:] at 8
HeaderLast(k) ==
    LET w == MediaEventsOf(k)
        data == Source("gang", s_cmds[k].len)
    IN  \A i \in 1..Len(w) :
            IsWrite(w[i]) /\ w[i].a < 8 =>
                /\ i = Len(w)
                /\ w[i].a = 0
                /\ w[i].data = DTake(data, 8)
                /\ \A j \in 1..(i - 1) : w[j].ok
                /\ DDrop(Applied(<<>>, SubSeq(w, 1, i - 1)), 8) = DDrop(data, 8)

\* between the acknowledged erase and the acknowledged write at 0, bytes 0..7 of the
\* flash hold nothing of the image
HeaderAbsent(k) ==
    LET w == MediaEventsOf(k)
    IN  /\ k = s_ci
        /\ s_cmds[k].erase
        /\ w # <<>>
        /\ w[1].ok
        /\ ~\E i \in 1..Len(w) : IsWrite(w[i]) /\ w[i].a < 8 /\ w[i].ok
        => ~FromGang(FileRead(s_flash, 0, 8))

\* C14: in write_flash with erase, one RAW_STORAGE_ERASE of ceil(len/4096)
\* blocks from block 0 comes before any write; every byte of the image from
\* offset 8 on is written before any byte at offsets 0..7; and from the
\* erase until that last write bytes 0..7 of the flash hold no byte of the
\* image.
C14_WriteFlashOrder ==
    \A k \in 1..s_ci :
        s_cmds[k].cmd = "write_flash" => EraseFirst(k) /\ HeaderLast(k) /\ HeaderAbsent(k)

C14_Witness ==
    \E k \in 1..s_ci :
        /\ s_cmds[k].cmd = "write_flash"
        /\ s_cmds[k].erase
        /\ s_cmds[k].len = 4089
        /\ LET w == MediaEventsOf(k)
           IN  /\ Len(w) = 4
               /\ w[4].ok
               /\ <<w[1].op, w[2].a, w[3].a, w[4].a>> = <<"ERASE", 8, 4088, 0>>
        /\ FileRead(s_flash, 0, 4089) = Source("gang", 4089)

IsCall(e) == e.op \in {"raw_write", "raw_read"}

IsTransfer(e) == e.op \in {"READ", "WRITE", "FWRITE"}

\* the storage list v has the bit of the medium sid
HasMedium(sid, v) ==
    IF sid = STORAGE_ID_SFLASH THEN HasBit(v, SFLASH_BIT)
    ELSE sid = STORAGE_ID_SRAM /\ HasBit(v, SRAM_BIT)

\* s_hist[j] is the storage list that the call s_hist[j - 1] asked for
ListOfCall(j) ==
    /\ j >= 2
    /\ s_hist[j].op = "LIST"
    /\ IsCall(s_hist[j - 1])
    /\ s_hist[j].sid = s_hist[j - 1].sid

\* C15: every _raw_read and _raw_write asks for the storage list first;
\* every RAW_STORAGE_READ, RAW_STORAGE_WRITE and output-file write belongs
\* to a call whose list had the bit of its medium, SFLASH or SRAM; and a
\* list without that bit ends the run with an error, nothing being read or
\* written after it.
C15_ListBeforeTransfer ==
    /\ \A i \in 1..Len(s_hist) :
          IsCall(s_hist[i]) /\ i < Len(s_hist) => ListOfCall(i + 1)
    /\ \A i \in 1..Len(s_hist) :
          IsTransfer(s_hist[i]) =>
              \E j \in 2..(i - 1) :
                  /\ ListOfCall(j)
                  /\ s_hist[j].ok
                  /\ s_hist[j].sid = s_hist[i].sid
                  /\ HasMedium(s_hist[i].sid, s_hist[j].a)
                  /\ \A m \in (j + 1)..(i - 1) : s_hist[m].op \in {"INFO", "READ", "WRITE", "FWRITE"}
    /\ \A j \in 1..Len(s_hist) :
          s_hist[j].op = "LIST" /\ ~(s_hist[j].ok /\ HasMedium(s_hist[j].sid, s_hist[j].a)) =>
              j = Len(s_hist) /\ s_status = "raised"

C15_Witness ==
    /\ s_status = "raised"
    /\ Len(s_hist) >= 2
    /\ LET e == s_hist[Len(s_hist)]
       IN  /\ e.op = "LIST"
           /\ e.ok
           /\ e.sid = STORAGE_ID_SFLASH
           /\ e.a = SRAM_BIT
    /\ s_hist[Len(s_hist) - 1].op = "raw_write"
    /\ s_hist[Len(s_hist) - 1].n > 0

\* the entries of s_hist that belong to the call s_hist[i]: those after it
\* up to the next call, erase or copy
StartsCall(e) == IsCall(e) \/ e.op \in {"ERASE", "COPY"}

CallEnd(i) ==
    LET later == {j \in (i + 1)..Len(s_hist) : StartsCall(s_hist[j]) \/ s_hist[j].op = "return"}
        first == CHOOSE j \in later : \A m \in later : j <= m
    IN  IF later = {} THEN Len(s_hist)
        ELSE IF s_hist[first].op = "return" THEN first
        ELSE first - 1

TransfersOf(i) == SelectSeq(SubSeq(s_hist, i + 1, CallEnd(i)), IsTransfer)

ReturnsOf(i) == SelectSeq(SubSeq(s_hist, i + 1, CallEnd(i)), LAMBDA e : e.op = "return")

InfosOf(i) == SelectSeq(SubSeq(s_hist, i + 1, CallEnd(i)), LAMBDA e : e.op = "INFO")

\* the chunks w start at offset, each begins where the one before it ended,
\* and none is empty or longer than max
Contiguous(w, offset, max) ==
    \A j \in 1..Len(w) :
        /\ w[j].n \in 1..max
        /\ w[j].a = (IF j = 1 THEN offset ELSE w[j - 1].a + w[j - 1].n)

RECURSIVE Joined(_)
Joined(w) == IF w = <<>> THEN <<>> ELSE DCat(Head(w).data, Joined(Tail(w)))

\* the storage size _raw_read works with in the call s_hist[i]: the one it
\* asks for, or the one its caller asked for just before and passed on
StorageSizeOf(i) ==
    IF ~s_port THEN IMAGE_BLOCK_COUNT * SLFS_BLOCK_SIZE
    ELSE IF InfosOf(i) # <<>> THEN InfosOf(i)[1].a * SLFS_BLOCK_SIZE
    ELSE s_hist[i - 1].a * SLFS_BLOCK_SIZE

RawWriteSplit(i) ==
    LET c == s_hist[i]
        w == TransfersOf(i)
    IN  /\ Contiguous(w, c.a, 4080)
        /\ \A j \in 1..Len(w) :
              /\ w[j].op \in {"WRITE", "FWRITE"}
              /\ w[j].sid = c.sid
              /\ w[j].data = DSlice(c.data, w[j].a - c.a, w[j].a - c.a + w[j].n)
        /\ ReturnsOf(i) # <<>> =>
              /\ \A j \in 1..Len(w) : w[j].ok
              /\ Joined(w) = DNorm(c.data)

RawReadSplit(i) ==
    LET c == s_hist[i]
        r == TransfersOf(i)
        ret == ReturnsOf(i)
    IN  /\ Contiguous(r, c.a, 4096)
        /\ \A j \in 1..Len(r) : r[j].op = "READ" /\ r[j].sid = c.sid
        /\ ret # <<>> =>
              /\ ret[1].n = (IF c.n >= 1 THEN c.n ELSE StorageSizeOf(i) - c.a)
              /\ DLen(ret[1].data) = ret[1].n
              /\ s_port => \A j \in 1..Len(r) : r[j].ok /\ DLen(r[j].data) = r[j].n
              /\ s_port => ret[1].data = Joined(r)

\* C16: _raw_write(offset, data) sends chunks of 1..4080 bytes, the first
\* at offset and each where the one before ended, each holding the bytes of
\* data at its place, and when it returns they are all of data;
\* _raw_read(offset, size) asks for 1..4096 bytes at a time, the first
\* request at offset and each where the one before ended, and when it
\* returns for a size >= 1 it returns size bytes, the replies in order
\* (for a size < 1, the bytes from offset to the end of the storage).
C16_ChunkedTransfers ==
    \A i \in 1..Len(s_hist) :
        /\ s_hist[i].op = "raw_write" => RawWriteSplit(i)
        /\ s_hist[i].op = "raw_read" => RawReadSplit(i)

C16_Witness ==
    \E i, j \in 1..Len(s_hist) :
        /\ s_hist[i].op = "raw_write"
        /\ s_hist[i].n = 4081
        /\ ReturnsOf(i) # <<>>
        /\ Len(TransfersOf(i)) = 2
        /\ TransfersOf(i)[2].a = 8 + 4080
        /\ s_hist[j].op = "raw_read"
        /\ s_hist[j].n = 4100
        /\ ReturnsOf(j) # <<>>
        /\ Len(TransfersOf(j)) = 2
        /\ TransfersOf(j)[2].a = 4 + 4096
        /\ ReturnsOf(j)[1].n = 4100

\* command k is a raw write_file of a non-empty file to a file that
\* get_fat_info found, header included
RawOverwrite(k) ==
    /\ s_cmds[k].cmd = "write_file"
    /\ s_cmds[k].len > 0
    /\ s_cmds[k].entry # NoEntry
    /\ DLen(FileRead(s_in, s_cmds[k].entry.start_block * 4096, 8)) = 8

\* C17: a raw write_file of file_len bytes to a file of size_blocks blocks
\* with ceil((file_len + 8) / 4096) > size_blocks ends with the error and
\* writes nothing to the output image after the copy of the input image.
C17_ExpansionRejected ==
    \A k \in 1..s_ci :
        RawOverwrite(k) /\ CeilDiv(s_cmds[k].len + 8, 4096) > s_cmds[k].entry.size_blocks =>
            /\ s_status = "raised"
            /\ k = s_ci
            /\ MediaEventsOf(k) = <<>>
            /\ s_out = s_in

C17_Witness ==
    /\ s_ci = 1
    /\ RawOverwrite(1)
    /\ s_cmds[1].len = 4089
    /\ s_cmds[1].entry = Entry(2, 1)
    /\ s_status = "raised"
    /\ s_out = s_in
    /\ s_hist # <<>>

\* n as three bytes, least significant first
Le24(n) == Byte(n % 256) \o Byte((n \div 256) % 256) \o Byte((n \div 65536) % 256)

\* the input image with the length field of the file at block s set to L
\* and the L bytes after the file's header replaced by the local file
Overwritten(in, s, L) ==
    LET at == s * 4096
    IN  DNorm(DTake(in, at) \o Le24(L) \o DSlice(in, at + 3, at + 8)
              \o Source("local", L) \o DDrop(in, at + 8 + L))

\* the raw write_file, the first command, has returned having written and
\* no other command has started
RawOverwriteDone ==
    /\ s_ci = 1
    /\ RawOverwrite(1)
    /\ s_todo = <<>>
    /\ s_status \in {"running", "done"}

\* C18: when a raw write_file of L bytes to the file at block s has
\* returned, the output image is the input image except that bytes
\* [4096 s, 4096 s + 3) are L, least significant byte first, and bytes
\* [4096 s + 8, 4096 s + 8 + L) are the new data; bytes 3..7 of the file's
\* header and the two FAT copies in blocks 0 and 1 are those of the input.
C18_OverwriteInPlace ==
    RawOverwriteDone =>
        LET s == s_cmds[1].entry.start_block
            L == s_cmds[1].len
        IN  /\ s_out = Overwritten(s_in, s, L)
            /\ DLen(s_out) = DLen(s_in)
            /\ FileRead(s_out, 4096 * s + 3, 5) = FileRead(s_in, 4096 * s + 3, 5)
            /\ FileRead(s_out, 0, 2 * 4096) = FileRead(s_in, 0, 2 * 4096)
            /\ FileRead(s_out, 4096 * s, 3) = Le24(L)
            /\ FileRead(s_out, 4096 * s + 8, L) = Source("local", L)

C18_Witness ==
    /\ RawOverwriteDone
    /\ s_cmds[1].len = 4088
    /\ s_cmds[1].entry = Entry(2, 2)
    /\ Len(MediaEventsOf(1)) = 3
    /\ s_out = <<Run("in", 0, 8192), Run("byte", 248, 1), Run("byte", 15, 1), Run("byte", 0, 1),
                 Run("in", 8195, 5), Run("local", 0, 4088), Run("in", 12288, 4096)>>

\* the medium before the run: the device's flash, or the image file
InitialMedium == IF s_port THEN Source("flash", FlashBlocks * 4096) ELSE s_in

\* the _raw_read s_hist[i] of the serial flash, when it has returned, has
\* returned what the acknowledged erases and writes before it left at its
\* offset
ReadSeesWrites(i) ==
    s_hist[i].op = "raw_read" /\ s_hist[i].sid = STORAGE_ID_SFLASH /\ ReturnsOf(i) # <<>> =>
        LET ret == ReturnsOf(i)[1]
        IN  ret.data = FileRead(Applied(InitialMedium, SubSeq(s_hist, 1, i - 1)), s_hist[i].a, ret.n)

\* the medium written to holds every acknowledged write so far, a later one
\* over an earlier one where they overlap
WritesKept ==
    IF s_port THEN s_flash = Applied(InitialMedium, s_hist)
    ELSE s_hasout /\ s_out # <<>> => s_out = Applied(<<>>, s_hist)

\* C20: with a port and with an image file alike, a read made by a later
\* command returns at every offset what the earlier commands of the run
\* wrote there, and the written medium keeps every command's writes.
C20_ProgramOrder ==
    /\ \A i \in 1..Len(s_hist) : ReadSeesWrites(i)
    /\ WritesKept

(***************************************************************************)
(* More claims about a run of main() (checked under Spec)                  *)
(***************************************************************************)
\* where main() is while _write_file_api runs
ApiLabels ==
    {"wf_info", "wf_einfo", "wf_esend", "wf_estatus", "wf_open", "wf_chunk", "wf_cstatus",
     "wf_close", "wf_clstatus"}

\* C19: in a run with both -if and -of, a write_file command, whatever its
\* position on the command line, is never executed by _write_file_api.
C19_AlwaysRawOverwrite ==
    image_file /\ output_file /\ ci >= 1 /\ cmds[ci].cmd = "write_file" => pc \notin ApiLabels

\* the operations on the port carry the numbers of their commands in
\* ascending order, none of a command not yet started
WireInOrder ==
    /\ \A i, j \in 1..Len(wire) : i < j => wire[i].k <= wire[j].k
    /\ \A i \in 1..Len(wire) :
          \/ wire[i].k <= ci
          \/ wire[i].k = Len(cmds) + 1 /\ ci = Len(cmds) /\ pc \in {"after", "reboot", "end"}

\* C21: the operations on the port are those of the first subcommand, then
\* those of the second, and so on in the order of the command line; once a
\* subcommand has failed nothing more is sent.
C21_CommandOrder == []WireInOrder /\ [][status # "running" => wire' = wire]_vars

C21_Witness ==
    /\ Len(cmds) = 2
    /\ EventsOf(1) # <<>>
    /\ EventsOf(2) # <<>>
    /\ status = "raised"
    /\ wire[Len(wire)].k = 2

\* the subcommands of the model that change files
Mutating(c) == c.cmd \in {"write_file", "erase_file", "format_flash"}

\* subcommand k has returned
Finished(k) == k < ci \/ (k = ci /\ pc \in {"cmd", "after", "reboot"}) \/ status = "done"

\* C22: on a live device, when a subcommand that changes files has returned,
\* the FAT is read again after its operations and before those of the next
\* subcommand.
C22_FatRereadAfterEach ==
    Live =>
        \A k \in 1..ci :
            Mutating(cmds[k]) /\ Finished(k) /\ (k < ci \/ pc \in {"reboot", "end"}) =>
                \E i \in 1..Len(wire) :
                    /\ wire[i].op = "GET_FAT_INFO"
                    /\ \A j \in 1..(i - 1) : wire[j].k <= k
                    /\ \A j \in (i + 1)..Len(wire) : wire[j].k > k \/ wire[j].op = "GET_FAT_INFO"

\* the events of the storage command k
StoreEventsOf(k) == SelectSeq(s_hist, LAMBDA e : e.k = k)

\* read_file through the FAT, run as command k, has written to its sink
ReadFileDone(k) ==
    /\ s_cmds[k].cmd = "read_file"
    /\ \E i \in 1..Len(s_hist) : s_hist[i].k = k /\ s_hist[i].op = "SINK"

\* the one _raw_read of the read_file k starts at start + 8 and asks for
\* size bytes, and what it returns is what the sink gets
ReadFileReads(k, start, size) ==
    LET ev == StoreEventsOf(k)
        calls == SelectSeq(ev, IsCall)
        rets == SelectSeq(ev, LAMBDA e : e.op = "return")
        sinks == SelectSeq(ev, LAMBDA e : e.op = "SINK")
    IN  /\ Len(calls) = 1 /\ Len(rets) = 1 /\ Len(sinks) = 1
        /\ calls[1].op = "raw_read"
        /\ calls[1].sid = STORAGE_ID_SFLASH
        /\ calls[1].a = start + SFFS_FAT_FILE_HEADER_SIZE
        /\ calls[1].n = size
        /\ sinks[1].data = rets[1].data
        /\ size >= 1 => DLen(sinks[1].data) = size
        /\ ~s_port /\ s_hist[Len(s_hist)].op = "SINK" /\ s_hist[Len(s_hist)].k = k =>
              sinks[1].data = FileRead(s_in, calls[1].a, DLen(sinks[1].data))

\* C23 (as stated): read_file through the FAT reads size_blocks * block_size
\* bytes at start_block * block_size + 8 and writes them to the sink.
C23_ReadsWholeBlocks ==
    \A k \in 1..Len(s_cmds) :
        ReadFileDone(k) =>
            ReadFileReads(k, s_cmds[k].entry.start_block * SLFS_BLOCK_SIZE,
                          s_cmds[k].entry.size_blocks * SLFS_BLOCK_SIZE)

\* C23 (amended): read_file through the FAT reads, in one _raw_read of the
\* serial flash at start_block * block_size + 8, as many bytes as the length
\* in the file's header says, and writes what it read to the sink.
C23_ReadsHeaderLength ==
    \A k \in 1..Len(s_cmds) :
        ReadFileDone(k) =>
            ReadFileReads(k, s_cmds[k].entry.start_block * SLFS_BLOCK_SIZE,
                          s_cmds[k].entry.size)

C23_Witness ==
    /\ ~s_port
    /\ ReadFileDone(1)
    /\ s_cmds[1].entry = ReadHeader(Entry(2, 2), 4100)
    /\ s_hist[Len(s_hist)].op = "SINK"
    /\ DLen(s_hist[Len(s_hist)].data) = 4100

\* the erase_file command k is over: it returned or it raised
EraseOver(k) == k < ci \/ (k = ci /\ pc \in {"cmd", "after", "reboot", "end"})

EraseShape(k) ==
    LET ev == EventsOf(k)
    IN  /\ IsPrefix(Ops(ev), <<"GET_FILE_INFO", "ERASE_FILE", "GET_LAST_STATUS">>)
        /\ Len(ev) >= 2 => ev[1].ok /\ ev[1].a = 1
        /\ Len(ev) = 3 => ev[2].ok
        /\ EraseOver(k) /\ ev # <<>> /\ ev[1].ok /\ ev[1].a = 1 => Len(ev) >= 2
        /\ EraseOver(k) /\ Len(ev) >= 2 /\ ev[2].ok => Len(ev) = 3
        /\ Finished(k) /\ status # "raised" =>
              \/ Len(ev) = 1 /\ ev[1].ok /\ ev[1].a = 0
              \/ Len(ev) = 3 /\ ev[3].ok /\ IsOk(ev[3].a)
        /\ Len(ev) = 3 /\ ~(ev[3].ok /\ IsOk(ev[3].a)) =>
              status = "raised" /\ ci = k /\ wire[Len(wire)] = ev[3]

FatChosen == f_pc \in {"done", "raised"} /\ f_out.selected # None

CopyValid(j) == SffsHeader(j - 1, f_in.fat[j]).is_valid

\* the index of the active copy when at least one copy is valid
ActiveCopy ==
    IF CopyValid(1) /\ CopyValid(2)
    THEN (IF f_in.fat[2].rev > f_in.fat[1].rev THEN 1 ELSE 0)
    ELSE IF CopyValid(1) THEN 0 ELSE 1

\* C25: with both copies valid the active FAT is the copy with the greater
\* revision, the first copy when the revisions are equal, and the inactive
\* FAT is the other copy; with one copy valid, that copy is the active FAT
\* (and there is no inactive one).
C25_FatSelection ==
    /\ FatChosen => f_out.selected = (IF f_in.inactive THEN 1 - ActiveCopy ELSE ActiveCopy)
    /\ FatChosen /\ f_in.inactive => CopyValid(1) /\ CopyValid(2)
    /\ f_pc \in {"done", "raised"} /\ (CopyValid(1) \/ CopyValid(2)) /\ ~f_in.inactive =>
          FatChosen

C25_Witness ==
    /\ f_pc = "done"
    /\ ~f_in.inactive
    /\ CopyValid(1) /\ CopyValid(2)
    /\ f_in.fat[1].rev = f_in.fat[2].rev
    /\ f_out.selected = 0

Metadata2Base ==
    IF f_in.device = "cc32xx" THEN SFFS_FAT_METADATA2_CC32XX_OFFSET
    ELSE SFFS_FAT_METADATA2_CC3200_OFFSET

\* C26: the names of the files of the chosen FAT copy are read from the
\* metadata block 2 of that copy: at the base offset for the first copy, at
\* the base offset + 0x1000 for the second.
C26_OwnMetadata ==
    FatChosen =>
        f_out.meta2[1] = Metadata2Base + (IF f_out.selected = 1 THEN SFFS_FAT_PART_OFFSET ELSE 0)

\* what the code does: the second metadata block is read whenever the
\* second copy is valid
C26_SecondWhenValid ==
    f_pc \in {"done", "raised"} =>
        f_out.meta2[1] = Metadata2Base + (IF CopyValid(2) THEN SFFS_FAT_PART_OFFSET ELSE 0)

C26_BothValidFirstChosen ==
    /\ f_pc = "done"
    /\ CopyValid(1) /\ CopyValid(2)
    /\ f_out.selected = 0
    /\ f_out.meta2[1] = Metadata2Base + SFFS_FAT_PART_OFFSET

\* get_fat_info has parsed the chosen FAT copy without error
Parsed == f_pc = "done"

\* the slots of the chosen FAT copy
ChosenSlots == f_in.fat[f_out.selected + 1].slots

\* the slot i of the chosen FAT copy has given a file
FileOfSlot(i) == \E j \in 1..Len(f_out.info.files) : f_out.info.files[j].index = i

\* C27 (as stated): the slot i gives no file exactly when its bytes are
\* FF FF FF FF or <<i, 0xFF, i, 0x7F>>.
C27_EmptyCanonical ==
    Parsed => \A i \in 0..(FatSlots - 1) :
                  ~FileOfSlot(i) <=> SlotEmptyCanonical(i, ChosenSlots[i + 1])

\* C27 (amended): the slot i gives no file exactly when its bytes are
\* FF FF FF FF or <<0xFF, i, 0xFF, 0x7F>>; any other slot must begin with
\* the byte i, or the parse fails, and gives the file whose size_blocks is
\* byte 1 and whose start_block is byte 2 + 256 * (the low four bits of
\* byte 3).
C27_EmptySlots ==
    /\ Parsed => \A i \in 0..(FatSlots - 1) :
          LET meta == ChosenSlots[i + 1]
              empty == meta = <<255, 255, 255, 255>> \/ meta = <<255, i, 255, 127>>
          IN  /\ ~FileOfSlot(i) <=> empty
              /\ ~empty => /\ meta[1] = i
                           /\ \E j \in 1..Len(f_out.info.files) :
                                 /\ f_out.info.files[j].index = i
                                 /\ f_out.info.files[j].size_blocks = meta[2]
                                 /\ f_out.info.files[j].start_block = meta[3] + 256 * (meta[4] % 16)
    /\ FatChosen /\ (\E i \in 0..(FatSlots - 1) :
                        /\ ChosenSlots[i + 1] \notin {<<255, 255, 255, 255>>, <<255, i, 255, 127>>}
                        /\ ChosenSlots[i + 1][1] # i)
          => f_pc = "raised"

C27_Witness ==
    /\ Parsed
    /\ ChosenSlots[1] = <<255, 0, 255, 127>>
    /\ ChosenSlots[2] = <<1, 255, 1, 127>>
    /\ FileOfSlot(1)
    /\ ~FileOfSlot(0)

Blocks(start_block, total_blocks) == start_block..(start_block + total_blocks - 1)

\* the occupied ranges of the files w: the FAT itself and every file
OccupiedRanges(w) ==
    <<Blocks(0, FAT_TABLE_BLOCKS)>>
    \o [j \in 1..Len(w) |-> Blocks(w[j].start_block, w[j].total_blocks)]

PairwiseDisjoint(r) == \A a, b \in 1..Len(r) : a # b => r[a] \cap r[b] = {}

\* C28: when two occupied ranges of the chosen FAT overlap, the parse
\* fails with the overlapping-entry error; after a parse without error the
\* occupied ranges are pairwise disjoint.
C28_OverlapDetected ==
    /\ FatChosen /\ ScanFrom(0, ChosenSlots).ok
       /\ ~PairwiseDisjoint(OccupiedRanges(ScanFrom(0, ChosenSlots).files))
          => f_pc = "raised" /\ f_out.error = "broken FAT: overlapping entry"
    /\ Parsed => PairwiseDisjoint(OccupiedRanges(f_out.info.files))

C28_Witness ==
    /\ f_pc = "raised"
    /\ f_out.error = "broken FAT: overlapping entry"
    /\ f_in.block_count = IMAGE_BLOCK_COUNT
    /\ ChosenSlots = <<<<0, 2, 5, 192>>, <<1, 2, 5, 192>>>> \o [i \in 1..(FatSlots - 2) |-> <<255, 255, 255, 255>>]

\* total_blocks of a file as its slot says: size_blocks, twice that when
\* the flag bit 0x4 is clear
TotalOfSlot(meta) == IF ((meta[4] \div 16) \div 4) % 2 = 0 THEN 2 * meta[2] ELSE meta[2]

RECURSIVE SumOfSlots(_, _)
SumOfSlots(i, slots) ==
    IF i = FatSlots THEN 0
    ELSE (IF slots[i + 1] = <<255, 255, 255, 255>> \/ slots[i + 1] = <<255, i, 255, 127>>
          THEN 0 ELSE TotalOfSlot(slots[i + 1])) + SumOfSlots(i + 1, slots)

C29_UsedIsSum ==
    Parsed => f_out.info.used_blocks = FAT_TABLE_BLOCKS + SumOfSlots(0, ChosenSlots)

\* C29: after a parse without error used_blocks is 5 + the sum of the
\* total_blocks of the files, and it is at most block_count.
C29_UsedBlocks ==
    Parsed =>
        /\ f_out.info.used_blocks = FAT_TABLE_BLOCKS + SumOfSlots(0, ChosenSlots)
        /\ f_out.info.used_blocks <= f_out.info.block_count

C29_UsedBeyondCount ==
    /\ Parsed
    /\ f_out.info.block_count = IMAGE_BLOCK_COUNT
    /\ f_out.info.used_blocks = IMAGE_BLOCK_COUNT + 1

\* the blocks of a hole, as print_sffs_info shows it: from start_block to
\* start_block + size_blocks, both included
HoleBlocks(h) == h.start_block..(h.start_block + h.size_blocks)

HoleRanges(holes) == [j \in 1..Len(holes) |-> HoleBlocks(holes[j])]

Covered(r) == UNION {r[j] : j \in 1..Len(r)}

\* C30: after a parse without error the holes are pairwise disjoint, are
\* disjoint from the occupied ranges, and together with them make up the
\* blocks 0 .. block_count - 1.
C30_HolesPartition ==
    Parsed =>
        LET holes == HoleRanges(f_out.info.holes)
            occupied == OccupiedRanges(f_out.info.files)
        IN  /\ PairwiseDisjoint(holes)
            /\ Covered(holes) \cap Covered(occupied) = {}
            /\ Covered(holes) \cup Covered(occupied) = 0..(f_out.info.block_count - 1)

\* what holds: holes and occupied ranges are disjoint, and when no file
\* lies beyond block_count they make up the blocks 0 .. block_count - 1
C30_HolesWithinStorage ==
    Parsed =>
        LET holes == HoleRanges(f_out.info.holes)
            occupied == OccupiedRanges(f_out.info.files)
        IN  /\ PairwiseDisjoint(holes)
            /\ Covered(holes) \cap Covered(occupied) = {}
            /\ (\A j \in 1..Len(f_out.info.files) :
                    f_out.info.files[j].start_block <= f_out.info.block_count)
               => Covered(holes) \cup Covered(occupied) = 0..(f_out.info.block_count - 1)

C30_HoleBeyondStorage ==
    /\ Parsed
    /\ \E j \in 1..Len(f_out.info.holes) :
          f_out.info.holes[j].start_block = f_out.info.block_count

(***************************************************************************)
(* Claims about command lines, handles and lookups                         *)
(***************************************************************************)
\* the command line names no subcommand: it is empty or holds options only
NoSubcommand == cmds = <<>> \/ cmds = <<NoCmd>>

\* C31: a command line without a subcommand ends the program with exit code
\* -1 before the serial port or the image file is opened and with nothing
\* sent to the device.
C31_NoSubcommandExits ==
    NoSubcommand =>
        /\ pc \in {"main", "end"}
        /\ wire = <<>>
        /\ pc = "end" => status = "exit-1"

\* what holds: for the empty command line
C31_EmptyExits ==
    cmds = <<>> =>
        /\ pc \in {"main", "end"}
        /\ wire = <<>>
        /\ pc = "end" => status = "exit-1"

C31_OptionsOnlyConnects ==
    /\ cmds = <<NoCmd>>
    /\ ~image_file
    /\ HasOp("RESET")
    /\ status = "done"

\* C33: for every non-empty payload P, _read_packet fed the bytes that
\* _send_packet(P) wrote returns P and writes the ACK 00 CC, and
\* _send_packet fed that ACK returns: both calls complete.
C33_FramingRoundTrip ==
    (l_op = "round_trip" /\ l_payload # <<>>) =>
        /\ l_ok
        /\ l_data = l_payload
        /\ l_rx = ACK
        /\ l_tx = Frame(l_payload)

C33_Witness ==
    /\ l_op = "round_trip"
    /\ Len(l_payload) = 300
    /\ SubSeq(l_tx, 1, 3) = <<1, 46, 44>>
    /\ l_ok
    /\ Len(l_data) = 300

\* the first four bytes of the FAT copy j make it valid, as C34 says it
ValidBytes(j) ==
    /\ f_in.fat[j].rev # 65535
    /\ f_in.fat[j].sign # 65535
    /\ f_in.fat[j].sign = 21324

ValidCopies == {j \in 1..2 : ValidBytes(j)}

\* C34: a FAT copy is valid exactly when neither its revision nor its
\* signature is 0xFFFF and its signature is 0x534C; get_fat_info raises
\* when no copy is valid, raises for the inactive FAT when fewer than two
\* copies are valid, and otherwise chooses a valid copy.
C34_FatValidity ==
    f_pc \in {"done", "raised"} =>
        /\ ValidCopies = {} <=> f_out.error = "no valid fat tables found"
        /\ (f_in.inactive /\ Cardinality(ValidCopies) = 1)
              <=> f_out.error = "no valid inactive fat table found"
        /\ f_in.inactive /\ Cardinality(ValidCopies) < 2 => f_pc = "raised" /\ ~FatChosen
        /\ ValidCopies = {} => f_pc = "raised" /\ ~FatChosen
        /\ FatChosen <=> (ValidCopies # {} /\ (f_in.inactive => ValidCopies = {1, 2}))
        /\ FatChosen => f_out.selected + 1 \in ValidCopies

C34_Witness ==
    /\ f_pc = "raised"
    /\ f_in.inactive
    /\ f_in.fat[1].rev = 65535 /\ f_in.fat[1].sign = 21324
    /\ ValidCopies = {2}
    /\ f_out.error = "no valid inactive fat table found"

\* the storage command k looks up a file that the active FAT does not have
LooksUpMissing(k) ==
    /\ s_cmds[k].entry = NoEntry
    /\ \/ s_cmds[k].cmd = "read_file"
       \/ s_cmds[k].cmd = "write_file" /\ s_cmds[k].len > 0

\* C35: read_file through the FAT of a name or id the FAT does not have
\* raises before anything is read and writes nothing to the sink; the
\* raw-overwrite write_file of such a name or id raises before the header
\* or the payload is written.
C35_LookupFailure ==
    \A k \in 1..s_ci :
        LooksUpMissing(k) =>
            /\ \A i \in 1..Len(s_hist) :
                  s_hist[i].k = k =>
                      s_hist[i].op \notin {"raw_read", "raw_write", "READ", "WRITE", "FWRITE",
                                           "SINK", "LIST", "INFO", "ERASE"}
            /\ s_ci = k
            /\ s_status = "raised"

C35_Witness ==
    /\ s_ci = 2
    /\ s_cmds[1].cmd = "read_file" /\ s_cmds[1].entry # NoEntry
    /\ \E i \in 1..Len(s_hist) : s_hist[i].k = 1 /\ s_hist[i].op = "SINK"
    /\ s_cmds[2].cmd = "read_file" /\ s_cmds[2].entry = NoEntry
    /\ s_status = "raised"

\* C35 on the live device, where read_file asks GET_FILE_INFO: when the
\* answer is "does not exist" the run ends raised with that answer as the
\* last thing on the port
C35_ReadMissingLive ==
    Live => \A i \in 1..Len(wire) :
               (/\ wire[i].op = "GET_FILE_INFO"
                /\ wire[i].k \in 1..Len(cmds)
                /\ cmds[wire[i].k].cmd = "read_file"
                /\ wire[i].ok /\ wire[i].a = 0)
               => i = Len(wire) /\ status = "raised"

(***************************************************************************)
(* Claims about split_argv (checked under SpecArgv)                        *)
(***************************************************************************)
RECURSIVE Concat(_)
Concat(groups) == IF groups = <<>> THEN <<>> ELSE Head(groups) \o Concat(Tail(groups))

\* The group the p-th token of the concatenation of groups lies in.
RECURSIVE GroupOf(_, _)
GroupOf(groups, p) ==
    IF p <= Len(Head(groups)) THEN 1 ELSE 1 + GroupOf(Tail(groups), p - Len(Head(groups)))

\* The place of the nearest subcommand token before place p, 0 when there is none.
NearestSubcommand(argv, p) ==
    LET before == {q \in 1..(p - 1) : argv[q] \in SubparserChoices}
    IN  IF before = {} THEN 0 ELSE CHOOSE q \in before : \A r \in before : r <= q

\* C36: split_argv partitions the argument vector without loss or
\* reordering: the yielded groups concatenated are the input, no group has
\* more than one subcommand token, every group after the first begins with a
\* subcommand token, and every option token is in the group of the nearest
\* subcommand token before it, or in the first group when none precedes it.
C36_SplitArgvPartitions ==
    a_pc = "done" =>
        /\ Concat(a_groups) = cmdline_args
        /\ \A g \in 1..Len(a_groups) :
               /\ a_groups[g] # <<>>
               /\ Cardinality({i \in 1..Len(a_groups[g]) : a_groups[g][i] \in SubparserChoices}) <= 1
               /\ g > 1 => a_groups[g][1] \in SubparserChoices
        /\ \A p \in 1..Len(cmdline_args) :
               cmdline_args[p] \notin SubparserChoices =>
                   LET q == NearestSubcommand(cmdline_args, p)
                   IN  GroupOf(a_groups, p) = IF q = 0 THEN 1 ELSE GroupOf(a_groups, q)

\* Global options, a first subcommand, and a second subcommand with its option.
C36_Witness ==
    /\ a_pc = "done"
    /\ Len(a_groups) = 2
    /\ cmdline_args[1] \notin SubparserChoices
    /\ cmdline_args[Len(cmdline_args)] \notin SubparserChoices

(***************************************************************************)
(* Claims about the raw overwrite (checked under SpecFat)                  *)
(***************************************************************************)
\* C37: a raw-overwrite write_file that succeeds writes only inside the
\* extent of the file it overwrites: every byte it writes lies in
\* [start_block * block_size, (start_block + size_blocks) * block_size), and
\* start_block >= 5, so no block of the FAT and no block of another file is
\* written.
C37_RawWriteInExtent ==
    f_pc = "raw_written" =>
        LET f == f_out.raw.filefinfo[1]
        IN  /\ f.start_block >= FAT_TABLE_BLOCKS
            /\ \A i \in 1..Len(f_out.raw.writes) :
                   LET w == f_out.raw.writes[i]
                   IN  /\ f.start_block * SLFS_BLOCK_SIZE <= w[1]
                       /\ w[1] + w[2] <= (f.start_block + f.size_blocks) * SLFS_BLOCK_SIZE
            /\ \A j \in 1..Len(f_out.info.files) :
                   f_out.info.files[j].index # f.index =>
                       \A i \in 1..Len(f_out.raw.writes) :
                           LET w == f_out.raw.writes[i]
                               g == f_out.info.files[j]
                           IN  \/ w[1] + w[2] <= g.start_block * SLFS_BLOCK_SIZE
                               \/ (g.start_block + g.total_blocks) * SLFS_BLOCK_SIZE <= w[1]

\* The largest local file a two-block file takes, written while a second
\* file is in the FAT.
C37_Witness ==
    /\ f_pc = "raw_written"
    /\ f_out.raw.file_len = 2 * SLFS_BLOCK_SIZE - 9
    /\ Len(f_out.info.files) = 2
    /\ Len(f_out.raw.writes) = 2

(***************************************************************************)
(* Claims about read_all_files (checked under SpecFat)                     *)
(***************************************************************************)
ReadAllEntered == f_pc \in {"reading", "all_read", "hung"} \/ "attempts" \in DOMAIN f_out

====
